---- MODULE Spec2Model ----
(***************************************************************************)
(* Model of the chat edge function (supabase/functions/chat/index.ts), of  *)
(* the completion client it drives (services/AIService.ts), of the         *)
(* retrieval engine and of the chat widget that calls them.                *)
(*                                                                         *)
(* Strings that the code only copies are TLA+ strings.  The knowledge      *)
(* context, which the code trims, is a sequence of one-character strings.  *)
(* JSON values are records tagged by t: "undef", "null", "str", "num",     *)
(* "arr", "obj".                                                           *)
(***************************************************************************)
EXTENDS Integers, Sequences, FiniteSets, TLC

(***************************************************************************)
(* Program constants                                                       *)
(***************************************************************************)
DEFAULT_MAX_TOKENS == 500

\* DEFAULT_TEMPERATURE is 0.3, kept as the number of tenths
DEFAULT_TEMPERATURE_TENTHS == 3

TIMEOUT_MS == 30000

\* conversationHistory.slice(-6)
MAX_HISTORY == 6

(***************************************************************************)
(* Bounds of the model                                                     *)
(***************************************************************************)
\* the clock advances by at most TickMs at a time
TickMs == 10000

\* the clock of one call stops advancing at MaxTime
MaxTime == 50000

\* longest conversation history enumerated for createConversation
MaxHistLen == 7

(***************************************************************************)
(* JSON values                                                             *)
(***************************************************************************)
Undefined == [t |-> "undef"]

JNull == [t |-> "null"]

JStr(s) == [t |-> "str", v |-> s]

JNum(n) == [t |-> "num", v |-> n]

JArr(s) == [t |-> "arr", v |-> s]

JObj(f) == [t |-> "obj", f |-> f]

\* a body that JSON.parse rejects: the empty text
Unparseable == [t |-> "unparseable"]

IsNullish(v) == v.t \in {"undef", "null"}

\* JavaScript truthiness of a JSON value
Truthy(v) ==
  CASE v.t \in {"undef", "null"} -> FALSE
    [] v.t = "str" -> v.v # ""
    [] v.t = "num" -> v.v # 0
    [] OTHER -> TRUE

\* property read v.k on a value that is not null or undefined
GetKey(v, k) ==
  IF v.t = "obj" /\ k \in DOMAIN v.f THEN v.f[k] ELSE Undefined

\* element read v[i] (i counted from 0) on a value that is not null or
\* undefined: the element of an array, the character of a string, the
\* property of an object whose key is the number written in decimal
GetIdx(v, i) ==
  CASE v.t = "arr" -> IF (i + 1) \in DOMAIN v.v THEN v.v[i + 1] ELSE Undefined
    [] v.t = "str" -> IF i < Len(v.v) THEN JStr(SubSeq(v.v, i + 1, i + 1))
                      ELSE Undefined
    [] v.t = "obj" -> IF ToString(i) \in DOMAIN v.f THEN v.f[ToString(i)]
                      ELSE Undefined
    [] OTHER -> Undefined

\* a template literal cannot convert the value to a string: the value is an
\* object with a property toString of its own, which in a JSON value is never
\* a function (Object.prototype.valueOf, or a valueOf of its own, gives no
\* primitive either), or an array with such an element
RECURSIVE TemplateThrows(_)
TemplateThrows(v) ==
  CASE v.t = "obj" -> "toString" \in DOMAIN v.f
    [] v.t = "arr" -> \E i \in 1..Len(v.v) : TemplateThrows(v.v[i])
    [] OTHER -> FALSE

\* the text a template literal puts for a value it can convert (String(v)):
\* a string as it is, a number in decimal, an array as its elements joined
\* by commas (null and undefined elements as nothing), an object without a
\* toString of its own as [object Object]
RECURSIVE TemplateText(_)
TemplateText(v) ==
  LET RECURSIVE JoinFrom(_, _)
      JoinFrom(a, i) ==
        IF i > Len(a) THEN ""
        ELSE (IF i > 1 THEN "," ELSE "")
             \o (IF IsNullish(a[i]) THEN "" ELSE TemplateText(a[i]))
             \o JoinFrom(a, i + 1)
  IN CASE v.t = "str" -> v.v
       [] v.t = "num" -> ToString(v.v)
       [] v.t = "null" -> "null"
       [] v.t = "undef" -> "undefined"
       [] v.t = "arr" -> JoinFrom(v.v, 1)
       [] v.t = "obj" /\ "toString" \notin DOMAIN v.f -> "[object Object]"

\* optional chaining v?.k
OptKey(v, k) == IF IsNullish(v) THEN Undefined ELSE GetKey(v, k)

\* optional chaining v?.[i]
OptIdx(v, i) == IF IsNullish(v) THEN Undefined ELSE GetIdx(v, i)

\* string.trim() on a sequence of characters
\* the white space and line terminators String.prototype.trim removes, as far
\* as the modelled alphabet has them
IsSpace(c) == c \in {" ", "\n", "\t"}

RECURSIVE TrimStart(_)
TrimStart(s) ==
  IF s = <<>> THEN <<>>
  ELSE IF IsSpace(Head(s)) THEN TrimStart(Tail(s)) ELSE s

RECURSIVE TrimEnd(_)
TrimEnd(s) ==
  IF s = <<>> THEN <<>>
  ELSE IF IsSpace(s[Len(s)]) THEN TrimEnd(SubSeq(s, 1, Len(s) - 1)) ELSE s

Trim(s) == TrimEnd(TrimStart(s))

\* array.slice(-n)
SliceLast(s, n) ==
  IF Len(s) <= n THEN s ELSE SubSeq(s, Len(s) - n + 1, Len(s))

(***************************************************************************)
(* Errors                                                                  *)
(***************************************************************************)
NoError == [name |-> "none"]

\* new AIServiceError(message, statusCode, userMessage)
AIServiceError(message, statusCode, userMessage) ==
  [name |-> "AIServiceError", message |-> message,
   statusCode |-> statusCode, userMessage |-> userMessage]

\* an Error that is not an AIServiceError
PlainError(name, message) == [name |-> name, message |-> message]

IsAIServiceError(e) == e.name = "AIServiceError"

MsgTimeout == "The AI service took too long to respond. Please try again."

MsgUnexpected == "An unexpected error occurred. Please try again."

MsgBusy == "Service is busy. Please try again in a moment."

MsgAuth == "AI service authentication failed. Please check API key."

MsgBadRequest == "Invalid request to AI service."

MsgUpstream == "Failed to generate response. Please try again."

MsgNotConfigured == "AI service not configured. Please add OPENROUTER_API_KEY."

MsgFallback == "I'm sorry, I couldn't generate a response."

MsgRequired == "Message is required"

(***************************************************************************)
(* AIService: pure parts                                                   *)
(***************************************************************************)
DEFAULT_API_URL == "https://openrouter.ai/api/v1/chat/completions"

DEFAULT_MODEL == "mistralai/mistral-7b-instruct:free"

DEFAULT_REFERER == "https://faytech-support.lovable.app"

DEFAULT_COMPANY == "Our Company"

\* The two templates of buildSystemPrompt; the fixed text of each template is
\* its tag, the interpolated values are the other fields.
buildSystemPrompt(companyName, context, hasContext) ==
  IF ~hasContext
    THEN [template |-> "refusal", companyName |-> companyName]
    ELSE [template |-> "grounded", companyName |-> companyName,
          context |-> context]

\* the context test without the trim
HasContext_NoTrim(knowledgeContext) == knowledgeContext # <<>>

\* !!knowledgeContext && knowledgeContext.trim().length > 0
HasContext(knowledgeContext) ==
  knowledgeContext # <<>> /\ Len(Trim(knowledgeContext)) > 0

createConversation(companyName, userMessage, knowledgeContext, conversationHistory) ==
  LET hasContext == HasContext(knowledgeContext)
      systemPrompt == buildSystemPrompt(companyName, knowledgeContext, hasContext)
  IN [messages |->
        <<[role |-> "system", content |-> systemPrompt]>>
        \o SliceLast(conversationHistory, MAX_HISTORY)
        \o <<[role |-> "user", content |-> userMessage]>>,
      hasContext |-> hasContext]

\* handleHttpError with the 401/403 case lost: authentication failures fall
\* through to the default case.
handleHttpError_NoAuthCase(status, errorText) ==
  CASE status = 429 -> AIServiceError("Rate limit exceeded", 429, MsgBusy)
    [] status = 400 -> AIServiceError("Bad request", 400, MsgBadRequest)
    [] OTHER -> AIServiceError("OpenRouter error: " \o ToString(status), 500, MsgUpstream)

\* handleHttpError passing the upstream body on in the user message.
handleHttpError_EchoBody(status, errorText) ==
  CASE status = 429 -> AIServiceError("Rate limit exceeded", 429, MsgBusy \o " " \o errorText)
    [] status \in {401, 403} -> AIServiceError("Authentication failed", 500, MsgAuth)
    [] status = 400 -> AIServiceError("Bad request", 400, MsgBadRequest)
    [] OTHER -> AIServiceError("OpenRouter error: " \o ToString(status), 500,
                               MsgUpstream \o " " \o errorText)

\* The error handleHttpError(status, errorText) throws.
handleHttpError(status, errorText) ==
  CASE status = 429 -> AIServiceError("Rate limit exceeded", 429, MsgBusy)
    [] status \in {401, 403} -> AIServiceError("Authentication failed", 500, MsgAuth)
    [] status = 400 -> AIServiceError("Bad request", 400, MsgBadRequest)
    [] OTHER -> AIServiceError("OpenRouter error: " \o ToString(status), 500, MsgUpstream)

\* The catch block without its AbortError branch.
completeCatch_NoAbortBranch(error) ==
  IF IsAIServiceError(error) THEN error
  ELSE AIServiceError(error.message, 500, MsgUnexpected)

\* The catch block rethrowing whatever it caught, except the timeout.
completeCatch_Rethrow(error) ==
  IF error.name = "AbortError"
    THEN AIServiceError("Request timeout", 504, MsgTimeout)
    ELSE error

\* The catch block of complete(): what complete() throws for a caught error.
\* Every error of the model is an Error instance.
completeCatch(error) ==
  IF IsAIServiceError(error) THEN error
  ELSE IF error.name = "AbortError"
    THEN AIServiceError("Request timeout", 504, MsgTimeout)
    ELSE AIServiceError(error.message, 500, MsgUnexpected)

\* response.json() on a body that arrived, then
\* data.choices?.[0]?.message?.content || fallback.
\* [ok |-> TRUE, reply |-> ...] or [ok |-> FALSE, error |-> ...].
extractReply(body) ==
  IF body.t = "unparseable"
    THEN [ok |-> FALSE,
          error |-> PlainError("SyntaxError", "Unexpected end of JSON input")]
  ELSE IF IsNullish(body)
    THEN [ok |-> FALSE,
          error |-> PlainError("TypeError",
                     "Cannot read properties of null (reading 'choices')")]
  ELSE LET content ==
             OptKey(OptKey(OptIdx(GetKey(body, "choices"), 0), "message"), "content")
       IN [ok |-> TRUE,
           reply |-> IF Truthy(content) THEN content ELSE JStr(MsgFallback)]

\* Deno.env.get(name) || fallback
EnvOr(v, fallback) == IF Truthy(v) THEN v.v ELSE fallback

\* AIService.create(companyName): the service, or the error it throws.
create(environment, companyName) ==
  IF ~Truthy(environment.OPENROUTER_API_KEY)
    THEN [ok |-> FALSE,
          error |-> AIServiceError("OPENROUTER_API_KEY not configured", 500,
                                   MsgNotConfigured)]
    ELSE [ok |-> TRUE,
          service |-> [apiUrl |-> EnvOr(environment.OPENROUTER_API_URL, DEFAULT_API_URL),
                       apiKey |-> environment.OPENROUTER_API_KEY.v,
                       model |-> EnvOr(environment.OPENROUTER_MODEL, DEFAULT_MODEL),
                       companyName |-> companyName,
                       referer |-> DEFAULT_REFERER]]

\* The request complete() hands to fetch.
fetchRequest(service, messages) ==
  [url |-> service.apiUrl,
   method |-> "POST",
   authorization |-> "Bearer " \o service.apiKey,
   referer |-> service.referer,
   title |-> service.companyName \o " Support Chat",
   model |-> service.model,
   messages |-> messages,
   max_tokens |-> DEFAULT_MAX_TOKENS,
   temperature_tenths |-> DEFAULT_TEMPERATURE_TENTHS]

(***************************************************************************)
(* index.ts: pure parts                                                    *)
(***************************************************************************)
createResponse(body, status) == [status |-> status, body |-> body]

createErrorResponse(message, status) == createResponse([error |-> message], status)

\* a catch block that answers a failure with the fallback reply
handlerCatch_Swallow(error) == createResponse([reply |-> MsgFallback], 200)

\* The catch block of the serve handler.
handlerCatch(error) ==
  IF IsAIServiceError(error)
    THEN createErrorResponse(error.userMessage, error.statusCode)
    ELSE createErrorResponse(error.message, 500)

\* !message || typeof message !== 'string'
InvalidMessage(message) == ~Truthy(message) \/ message.t # "str"

\* a destructuring default: applied only to undefined
Default(v, d) == IF v.t = "undef" THEN d ELSE v

(***************************************************************************)
(* Inputs                                                                  *)
(***************************************************************************)
\* process environments: Deno.env.get gives a string or undefined
Environments ==
  { [OPENROUTER_API_KEY |-> k, OPENROUTER_API_URL |-> Undefined, OPENROUTER_MODEL |-> m] :
      k \in {Undefined, JStr(""), JStr("sk-key")},
      m \in {Undefined, JStr("custom/model")} }

Roles == {"system", "user", "assistant"}

Msg(role, content) == [role |-> role, content |-> content]

\* a history the widget would send: at most six user/assistant messages
ShortHistory == <<Msg("assistant", "greeting"), Msg("user", "q1")>>

\* a longer history than the builder keeps, one entry of it with role system
LongHistory ==
  <<Msg("user", "q1"), Msg("assistant", "a1"), Msg("system", "s1"),
    Msg("user", "q2"), Msg("assistant", "a2"), Msg("user", "q3"),
    Msg("assistant", "a3")>>

RequestObject(message, history, context, company) ==
  [t |-> "obj", message |-> message, conversationHistory |-> history,
   knowledgeContext |-> context, companyName |-> company]

\* request bodies of the answer entry point, as req.json() finds them
RequestBodies ==
  { Unparseable,
    JNull,
    JNum(7),
    JStr("x"),
    JArr(<<>>),
    RequestObject(JStr("hello"), JStr("abc"), Undefined, Undefined),
    RequestObject(Undefined, Undefined, Undefined, Undefined),
    RequestObject(JNum(5), JArr(ShortHistory), JStr(<<"k">>), JStr("Acme")),
    RequestObject(JStr(""), Undefined, Undefined, Undefined),
    RequestObject(JNull, JNull, Undefined, Undefined),
    RequestObject(JStr("hello"), Undefined, Undefined, Undefined),
    RequestObject(JStr("hello"), JNull, Undefined, JStr("Acme")),
    RequestObject(JStr("hello"), Undefined, Undefined, JNull),
    RequestObject(JStr("hello"), Undefined, Undefined, JNum(5)),
    RequestObject(JStr("hello"), Undefined, Undefined, JObj([a |-> JNum(1)])),
    RequestObject(JStr("hello"), Undefined, Undefined, JObj([toString |-> JNum(1)])),
    RequestObject(JStr("hello"), JArr(ShortHistory), JStr(<<" ">>), JStr("Acme")),
    RequestObject(JStr("hello"), JArr(LongHistory), JStr(<<"k">>), JStr("Acme")) }

Methods == {"POST", "OPTIONS"}

\* HTTP statuses the provider answers with
Statuses == {200, 201, 400, 401, 403, 404, 429, 503, 504}

IsOk(status) == status >= 200 /\ status <= 299

\* bodies of provider error responses
ErrorBodies == {"upstream detail A", "upstream detail B"}

Choices(first) == JObj([choices |-> JArr(<<first>>)])

\* bodies of provider success responses
SuccessBodies ==
  { Unparseable,
    JNull,
    JNum(7),
    JObj([id |-> JStr("gen-1")]),
    JObj([choices |-> JArr(<<>>)]),
    JObj([choices |-> JStr("abc")]),
    JObj([choices |-> JObj("0" :> JObj([message |-> JObj([content |-> JStr("Paris.")])]))]),
    Choices(JNull),
    Choices(JObj([index |-> JNum(0)])),
    Choices(JObj([message |-> JObj([role |-> JStr("assistant")])])),
    Choices(JObj([message |-> JObj([content |-> JNull])])),
    Choices(JObj([message |-> JObj([content |-> JStr("")])])),
    Choices(JObj([message |-> JObj([content |-> JStr("Paris.")])])) }

(***************************************************************************)
(* State                                                                   *)
(***************************************************************************)
VARIABLES
  env,           \* the process environment (Deno.env)
  pc,            \* where the serve handler is: idle, parsing, fetching,
                 \* readingText, readingJson, done
  req,           \* the request being served
  aiService,     \* the AIService the handler created
  conv,          \* the result of createConversation
  inflight,      \* the provider request complete() issued
  fetchCount,    \* provider requests issued for the request being served
  completeCalls, \* invocations of complete() for the request being served
  now,           \* milliseconds since complete() was called
  timerArmed,    \* the timeout timer is pending
  aborted,       \* controller.signal.aborted
  upstream,      \* what the provider has sent so far
  errorText,     \* the error body complete() read and logged
  thrown,        \* the error the handler's catch block received
  completion,    \* how complete() ended
  response,      \* the HTTP response of the handler
  prev,          \* an earlier provider error and the response it got
  cvIn,          \* inputs of a direct call of createConversation
  cvOut,         \* its result
  rtIn,          \* inputs of a direct call of the retrieval engine
  rtOut,         \* what the called operation returned
  wMessages,     \* ChatWidget state: messages
  wInput,        \* ChatWidget state: input
  wIsLoading,    \* ChatWidget state: isLoading
  wView,         \* the state values the last render gave to the handlers
  wPending,      \* chat requests of the widget that have not settled
  wIssued        \* chat requests the widget has issued

handlerVars ==
  <<env, pc, req, aiService, conv, inflight, fetchCount, completeCalls, now,
    timerArmed, aborted, upstream, errorText, thrown, completion, response, prev>>

convVars == <<cvIn, cvOut>>

retrVars == <<rtIn, rtOut>>

widgetVars == <<wMessages, wInput, wIsLoading, wView, wPending, wIssued>>

\* everything but the state of the serve handler
pureVars == <<convVars, retrVars, widgetVars>>

vars == <<handlerVars, convVars, retrVars, widgetVars>>

NoRequest == [method |-> "none", body |-> Undefined]

NoService == [model |-> "none"]

NoConv == [hasContext |-> FALSE, messages |-> <<>>]

NoPayload == [method |-> "none"]

NoUpstream == [status |-> 0, bodyState |-> "none", body |-> Undefined]

NoCompletion == [kind |-> "none"]

NoResponse == [status |-> 0]

NoPrev == [status |-> 0]

Awaiting == {"fetching", "readingText", "readingJson"}

Min(a, b) == IF a <= b THEN a ELSE b

(***************************************************************************)
(* The serve handler up to its first await inside complete()               *)
(***************************************************************************)
\* the elements the spread of a string gives: its characters, as strings
Characters(s) == [i \in 1..Len(s) |-> JStr(SubSeq(s, i, i))]

\* aiService.createConversation(message, knowledgeContext, conversationHistory)
\* on the destructured request values: the conversation, or the TypeError
\* JavaScript raises on a value of the wrong type. The default [] of the
\* parameter stands in for undefined; null has no property slice; a number or
\* an object has no method slice.
tryConversation(companyName, message, knowledgeContext, conversationHistory) ==
  IF Truthy(knowledgeContext) /\ knowledgeContext.t # "str"
    THEN [ok |-> FALSE,
          error |-> PlainError("TypeError", "knowledgeContext.trim is not a function")]
  ELSE IF conversationHistory.t = "null"
    THEN [ok |-> FALSE,
          error |-> PlainError("TypeError",
                      "Cannot read properties of null (reading 'slice')")]
  ELSE IF conversationHistory.t \notin {"undef", "arr", "str"}
    THEN [ok |-> FALSE,
          error |-> PlainError("TypeError",
                      "conversationHistory.slice is not a function or its return value is not iterable")]
  ELSE [ok |-> TRUE,
        conv |-> createConversation(
                   companyName, message.v,
                   IF knowledgeContext.t = "str" THEN knowledgeContext.v ELSE <<>>,
                   CASE conversationHistory.t = "undef" -> <<>>
                     [] conversationHistory.t = "str" ->
                          Characters(conversationHistory.v)
                     [] OTHER -> conversationHistory.v)]

\* Lines 40-68 of the handler, run on the body req.json() produced: either the
\* handler responds at once (validation failure or an exception), or it calls
\* complete() with the conversation it built.
handleBody(environment, body) ==
  IF body.t = "unparseable"
    THEN [respond |-> TRUE, service |-> NoService, conv |-> NoConv,
          thrown |-> PlainError("SyntaxError", "Unexpected end of JSON input")]
  ELSE IF IsNullish(body)
    THEN [respond |-> TRUE, service |-> NoService, conv |-> NoConv,
          thrown |-> PlainError("TypeError",
                       "Cannot destructure property 'message' of '(intermediate value)' as it is null.")]
  ELSE IF body.t # "obj"
    \* a number, a string or an array has no property message: the
    \* validation fails on undefined
    THEN [respond |-> TRUE, service |-> NoService, conv |-> NoConv,
          thrown |-> NoError]
  ELSE
    LET message == body.message
        conversationHistory == Default(body.conversationHistory, JArr(<<>>))
        knowledgeContext == Default(body.knowledgeContext, JStr(<<>>))
        \* the service only ever reads its company name inside template
        \* literals, so the model keeps the text they put for the value
        companyName == TemplateText(Default(body.companyName, JStr(DEFAULT_COMPANY)))
        made == create(environment, companyName)
        built == tryConversation(companyName, message, knowledgeContext,
                                 conversationHistory)
    IN IF InvalidMessage(message)
         THEN [respond |-> TRUE, service |-> NoService, conv |-> NoConv,
               thrown |-> NoError]
       \* console.log(`[chat] Processing for ${companyName}: "${message}"`)
       ELSE IF TemplateThrows(body.companyName)
         THEN [respond |-> TRUE, service |-> NoService, conv |-> NoConv,
               thrown |-> PlainError("TypeError",
                            "Cannot convert object to primitive value")]
       ELSE IF ~made.ok
         THEN [respond |-> TRUE, service |-> NoService, conv |-> NoConv,
               thrown |-> made.error]
       ELSE IF ~built.ok
         THEN [respond |-> TRUE, service |-> made.service, conv |-> NoConv,
               thrown |-> built.error]
       ELSE [respond |-> FALSE, service |-> made.service, conv |-> built.conv,
             thrown |-> NoError]

\* no direct call of the retrieval engine is under way
RetrIdle ==
  /\ rtIn = [op |-> "none"]
  /\ rtOut = [op |-> "none"]

\* the widget is not mounted
WidgetIdle ==
  /\ wMessages = <<>>
  /\ wInput = <<>>
  /\ wIsLoading = FALSE
  /\ wView = [mounted |-> FALSE]
  /\ wPending = <<>>
  /\ wIssued = 0

Init ==
  /\ RetrIdle
  /\ WidgetIdle
  /\ env \in Environments
  /\ pc = "idle"
  /\ req = NoRequest
  /\ aiService = NoService
  /\ conv = NoConv
  /\ inflight = NoPayload
  /\ fetchCount = 0
  /\ completeCalls = 0
  /\ now = 0
  /\ timerArmed = FALSE
  /\ aborted = FALSE
  /\ upstream = NoUpstream
  /\ errorText = Undefined
  /\ thrown = NoError
  /\ completion = NoCompletion
  /\ response = NoResponse
  /\ prev = NoPrev
  /\ cvIn = [called |-> FALSE]
  /\ cvOut = NoConv

\* A request arrives: the CORS preflight is answered at once, any other
\* request waits for req.json().
Serve(method, body) ==
  /\ pc = "idle"
  /\ req' = [method |-> method, body |-> body]
  /\ IF method = "OPTIONS"
       THEN /\ response' = [status |-> 200, body |-> JNull]
            /\ pc' = "done"
       ELSE /\ response' = NoResponse
            /\ pc' = "parsing"
  /\ UNCHANGED <<env, aiService, conv, inflight, fetchCount, completeCalls, now,
                 timerArmed, aborted, upstream, errorText, thrown, completion,
                 prev, pureVars>>

\* req.json() settles and the handler runs to its response or to the fetch
\* inside complete(), which arms the timer and issues the provider request.
HandleBody ==
  /\ pc = "parsing"
  /\ LET h == handleBody(env, req.body)
     IN /\ aiService' = h.service
        /\ conv' = h.conv
        /\ thrown' = h.thrown
        /\ IF h.respond
             THEN /\ response' = IF h.thrown = NoError
                                   THEN createErrorResponse(MsgRequired, 400)
                                   ELSE handlerCatch(h.thrown)
                  /\ pc' = "done"
                  /\ UNCHANGED <<inflight, fetchCount, completeCalls, now, timerArmed>>
             ELSE /\ completeCalls' = completeCalls + 1
                  /\ timerArmed' = TRUE
                  /\ now' = 0
                  /\ inflight' = fetchRequest(h.service, h.conv.messages)
                  /\ fetchCount' = fetchCount + 1
                  /\ pc' = "fetching"
                  /\ UNCHANGED response
  /\ UNCHANGED <<env, req, aborted, upstream, errorText, completion, prev, pureVars>>

(***************************************************************************)
(* complete(): the awaits and the timer                                    *)
(***************************************************************************)
\* complete() leaves through its catch block with `error` caught: the timer
\* is cleared, the mapped error is thrown, and the handler's catch block
\* turns it into the response.
CompleteThrows(error) ==
  /\ timerArmed' = FALSE
  /\ completion' = [kind |-> "error", error |-> completeCatch(error)]
  /\ thrown' = completeCatch(error)
  /\ response' = handlerCatch(completeCatch(error))
  /\ pc' = "done"

\* fetch resolves and the timer is left armed
FetchResolve_NoClear(status) ==
  /\ pc = "fetching"
  /\ ~aborted
  /\ upstream' = [status |-> status, bodyState |-> "pending", body |-> Undefined]
  /\ pc' = IF IsOk(status) THEN "readingJson" ELSE "readingText"
  /\ UNCHANGED <<env, req, aiService, conv, inflight, fetchCount, completeCalls,
                 now, timerArmed, aborted, errorText, thrown, completion,
                 response, prev, pureVars>>

\* The provider's status line and headers arrive: fetch resolves and the
\* timer is cleared.
FetchResolve(status) ==
  /\ pc = "fetching"
  /\ ~aborted
  /\ timerArmed' = FALSE
  /\ upstream' = [status |-> status, bodyState |-> "pending", body |-> Undefined]
  /\ pc' = IF IsOk(status) THEN "readingJson" ELSE "readingText"
  /\ UNCHANGED <<env, req, aiService, conv, inflight, fetchCount, completeCalls,
                 now, aborted, errorText, thrown, completion, response, prev,
                 pureVars>>

\* The transport fails before any response: fetch rejects.
FetchReject ==
  /\ pc = "fetching"
  /\ ~aborted
  /\ CompleteThrows(PlainError("TypeError", "error sending request"))
  /\ UNCHANGED <<env, req, aiService, conv, inflight, fetchCount, completeCalls,
                 now, aborted, upstream, errorText, prev, pureVars>>

\* The timeout callback runs: controller.abort().
TimerFire ==
  /\ timerArmed
  /\ now >= TIMEOUT_MS
  /\ aborted' = TRUE
  /\ timerArmed' = FALSE
  /\ UNCHANGED <<env, pc, req, aiService, conv, inflight, fetchCount,
                 completeCalls, now, upstream, errorText, thrown, completion,
                 response, prev, pureVars>>

\* The aborted signal rejects the pending operation with an AbortError.
AbortReject ==
  /\ aborted
  /\ pc \in Awaiting
  /\ CompleteThrows(PlainError("AbortError", "The signal has been aborted"))
  /\ UNCHANGED <<env, req, aiService, conv, inflight, fetchCount, completeCalls,
                 now, aborted, upstream, errorText, prev, pureVars>>

\* response.text() resolves with the error body: handleHttpError logs it
\* and throws.
TextResolve(text) ==
  /\ pc = "readingText"
  /\ ~aborted
  /\ upstream' = [upstream EXCEPT !.bodyState = "arrived", !.body = JStr(text)]
  /\ errorText' = JStr(text)
  /\ CompleteThrows(handleHttpError(upstream.status, text))
  /\ UNCHANGED <<env, req, aiService, conv, inflight, fetchCount, completeCalls,
                 now, aborted, prev, pureVars>>

\* The connection fails while the error body is read: response.text() rejects.
TextReject ==
  /\ pc = "readingText"
  /\ ~aborted
  /\ upstream' = [upstream EXCEPT !.bodyState = "failed"]
  /\ CompleteThrows(PlainError("TypeError", "error reading a body from connection"))
  /\ UNCHANGED <<env, req, aiService, conv, inflight, fetchCount, completeCalls,
                 now, aborted, errorText, prev, pureVars>>

\* The success body has arrived: response.json() parses it and complete()
\* returns the reply, or an exception sends it to the catch block.
JsonResolve(body) ==
  /\ pc = "readingJson"
  /\ ~aborted
  /\ upstream' = [upstream EXCEPT !.bodyState = "arrived", !.body = body]
  /\ LET r == extractReply(body)
     IN IF r.ok
          THEN /\ completion' = [kind |-> "reply", reply |-> r.reply,
                                  model |-> aiService.model]
               /\ response' = createResponse(
                                 [reply |-> r.reply, hasContext |-> conv.hasContext,
                                  model |-> aiService.model], 200)
               /\ pc' = "done"
               /\ UNCHANGED <<timerArmed, thrown>>
          ELSE CompleteThrows(r.error)
  /\ UNCHANGED <<env, req, aiService, conv, inflight, fetchCount, completeCalls,
                 now, aborted, errorText, prev, pureVars>>

\* The connection fails while the success body is read: response.json() rejects.
JsonReject ==
  /\ pc = "readingJson"
  /\ ~aborted
  /\ upstream' = [upstream EXCEPT !.bodyState = "failed"]
  /\ CompleteThrows(PlainError("TypeError", "error reading a body from connection"))
  /\ UNCHANGED <<env, req, aiService, conv, inflight, fetchCount, completeCalls,
                 now, aborted, errorText, prev, pureVars>>

\* Time passes while complete() awaits the provider.  A pending timer fires
\* at its deadline: the clock does not pass it, and an abort is delivered
\* before more time passes.
Tick ==
  /\ pc \in Awaiting
  /\ ~aborted
  /\ now < MaxTime
  /\ ~(timerArmed /\ now >= TIMEOUT_MS)
  /\ now' = IF timerArmed
              THEN Min(now + TickMs, TIMEOUT_MS)
              ELSE Min(now + TickMs, MaxTime)
  /\ UNCHANGED <<env, pc, req, aiService, conv, inflight, fetchCount,
                 completeCalls, timerArmed, aborted, upstream, errorText, thrown,
                 completion, response, prev, pureVars>>

\* What the finished request showed of a provider error response.
Observed ==
  [status |-> upstream.status, bodyState |-> upstream.bodyState,
   body |-> upstream.body, response |-> response]

\* The handler has responded; the next request starts from a fresh
\* invocation.  Nothing of the program is carried over: prev only remembers
\* one earlier provider error and its response, for comparison.
NextRequest ==
  /\ pc = "done"
  /\ pc' = "idle"
  /\ prev' \in IF upstream.status # 0 /\ ~IsOk(upstream.status)
                 THEN {prev, Observed}
                 ELSE {prev}
  /\ req' = NoRequest
  /\ aiService' = NoService
  /\ conv' = NoConv
  /\ inflight' = NoPayload
  /\ fetchCount' = 0
  /\ completeCalls' = 0
  /\ now' = 0
  /\ timerArmed' = FALSE
  /\ aborted' = FALSE
  /\ upstream' = NoUpstream
  /\ errorText' = Undefined
  /\ thrown' = NoError
  /\ completion' = NoCompletion
  /\ response' = NoResponse
  /\ UNCHANGED <<env, pureVars>>

Next ==
  \/ \E method \in Methods, body \in RequestBodies : Serve(method, body)
  \/ HandleBody
  \/ \E status \in Statuses : FetchResolve(status)
  \/ FetchReject
  \/ TimerFire
  \/ AbortReject
  \/ \E text \in ErrorBodies : TextResolve(text)
  \/ TextReject
  \/ \E body \in SuccessBodies : JsonResolve(body)
  \/ JsonReject
  \/ Tick
  \/ NextRequest

Spec == Init /\ [][Next]_vars

(***************************************************************************)
(* createConversation called directly on enumerated inputs                 *)
(***************************************************************************)
SeqsUpTo(S, n) == UNION { [1..k -> S] : k \in 0..n }

\* history entries: one message of each role
HistoryMessages == {Msg("system", "s1"), Msg("user", "q1"), Msg("assistant", "a1")}

\* knowledge contexts: empty, blank, and text with and without blanks around it
Contexts ==
  { <<>>, <<" ">>, <<" ", " ">>, <<"k">>, <<" ", "k", " ">>, <<"k", " ", "b">> }

UserMessages == {"hello", "q1"}

Companies == {"Acme"}

ConvInputs ==
  { [called |-> FALSE, companyName |-> c, userMessage |-> u,
     knowledgeContext |-> k, conversationHistory |-> h] :
      c \in Companies, u \in UserMessages,
      k \in Contexts,
      h \in SeqsUpTo(HistoryMessages, MaxHistLen) }

InitConv ==
  /\ RetrIdle
  /\ WidgetIdle
  /\ env = [OPENROUTER_API_KEY |-> Undefined, OPENROUTER_API_URL |-> Undefined,
            OPENROUTER_MODEL |-> Undefined]
  /\ pc = "idle"
  /\ req = NoRequest
  /\ aiService = NoService
  /\ conv = NoConv
  /\ inflight = NoPayload
  /\ fetchCount = 0
  /\ completeCalls = 0
  /\ now = 0
  /\ timerArmed = FALSE
  /\ aborted = FALSE
  /\ upstream = NoUpstream
  /\ errorText = Undefined
  /\ thrown = NoError
  /\ completion = NoCompletion
  /\ response = NoResponse
  /\ prev = NoPrev
  /\ cvIn \in ConvInputs
  /\ cvOut = NoConv

CallCreateConversation ==
  /\ ~cvIn.called
  /\ cvIn' = [cvIn EXCEPT !.called = TRUE]
  /\ cvOut' = createConversation(cvIn.companyName, cvIn.userMessage,
                                 cvIn.knowledgeContext, cvIn.conversationHistory)
  /\ UNCHANGED <<handlerVars, retrVars, widgetVars>>

NextConv == CallCreateConversation

SpecConv == InitConv /\ [][NextConv]_vars

(***************************************************************************)
(* Retrieval engine (src/lib/retrieval.ts): pure parts                     *)
(*                                                                         *)
(* The strings the engine cuts, lowercases and searches (queries, chunk    *)
(* keywords, titles, contents) are sequences of one-character strings.     *)
(* Scores are counted in half points, so that the 0.5 bonus is an integer: *)
(* a score of 3 in the code is 6 here, and minScore is given in half       *)
(* points as well.                                                         *)
(***************************************************************************)
\* String.prototype.toLowerCase on the letters A-Z
LowerOf ==
  [A |-> "a", B |-> "b", C |-> "c", D |-> "d", E |-> "e", F |-> "f",
   G |-> "g", H |-> "h", I |-> "i", J |-> "j", K |-> "k", L |-> "l",
   M |-> "m", N |-> "n", O |-> "o", P |-> "p", Q |-> "q", R |-> "r",
   S |-> "s", T |-> "t", U |-> "u", V |-> "v", W |-> "w", X |-> "x",
   Y |-> "y", Z |-> "z"]

ToLower(c) == IF c \in DOMAIN LowerOf THEN LowerOf[c] ELSE c

LowerLetters ==
  {"a", "b", "c", "d", "e", "f", "g", "h", "i", "j", "k", "l", "m",
   "n", "o", "p", "q", "r", "s", "t", "u", "v", "w", "x", "y", "z"}

Digits == {"0", "1", "2", "3", "4", "5", "6", "7", "8", "9"}

\* the regular expression class \w: [A-Za-z0-9_]
IsWordChar(c) ==
  c \in LowerLetters \cup DOMAIN LowerOf \cup Digits \cup {"_"}

\* string.toLowerCase()
LowerCase(s) == [i \in 1..Len(s) |-> ToLower(s[i])]

\* string.replace(/[^\w\s]/g, ' ')
ReplacePunctuation(s) ==
  [i \in 1..Len(s) |-> IF IsWordChar(s[i]) \/ IsSpace(s[i]) THEN s[i] ELSE " "]

\* string.split(/\s+/): the pieces between maximal runs of white space; a
\* piece is empty where the string starts or ends with white space, and the
\* empty string splits into one empty piece
RECURSIVE SplitFrom(_, _, _)
SplitFrom(s, piece, inSpace) ==
  IF s = <<>> THEN <<piece>>
  ELSE IF IsSpace(Head(s))
    THEN IF inSpace THEN SplitFrom(Tail(s), piece, TRUE)
         ELSE <<piece>> \o SplitFrom(Tail(s), <<>>, TRUE)
    ELSE SplitFrom(Tail(s), Append(piece, Head(s)), FALSE)

SplitSpaces(s) == SplitFrom(s, <<>>, FALSE)

Range(s) == { s[i] : i \in 1..Len(s) }

\* [...new Set(array)]: the first occurrence of every element, in order
RECURSIVE Dedupe(_)
Dedupe(s) ==
  IF s = <<>> THEN <<>>
  ELSE LET front == Dedupe(SubSeq(s, 1, Len(s) - 1))
           last == s[Len(s)]
       IN IF last \in Range(front) THEN front ELSE Append(front, last)

STOP_WORDS ==
  {
    <<"a">>, <<"a", "n">>, <<"a", "n", "d">>, <<"a", "r", "e">>,
    <<"a", "s">>, <<"a", "t">>, <<"b", "e">>, <<"b", "y">>, <<"f", "o", "r">>,
    <<"f", "r", "o", "m">>, <<"h", "a", "s">>, <<"h", "e">>, <<"i", "n">>,
    <<"i", "s">>, <<"i", "t">>, <<"i", "t", "s">>, <<"o", "f">>,
    <<"o", "n">>, <<"o", "r">>, <<"t", "h", "a", "t">>, <<"t", "h", "e">>,
    <<"t", "o">>, <<"w", "a", "s">>, <<"w", "e", "r", "e">>, <<"w", "i", "l", "l">>,
    <<"w", "i", "t", "h">>, <<"w", "h", "a", "t">>, <<"w", "h", "e", "r", "e">>,
    <<"w", "h", "e", "n">>, <<"w", "h", "o">>, <<"w", "h", "y">>,
    <<"h", "o", "w">>, <<"c", "a", "n">>, <<"c", "o", "u", "l", "d">>,
    <<"w", "o", "u", "l", "d">>, <<"s", "h", "o", "u", "l", "d">>,
    <<"d", "o">>, <<"d", "o", "e", "s">>, <<"d", "i", "d">>, <<"h", "a", "v", "e">>,
    <<"h", "a", "d">>, <<"i">>, <<"m", "y">>, <<"m", "e">>, <<"w", "e">>,
    <<"y", "o", "u">>, <<"y", "o", "u", "r">>, <<"t", "h", "e", "y">>,
    <<"t", "h", "i", "s">>, <<"t", "h", "e", "s", "e">>, <<"t", "h", "o", "s", "e">>,
    <<"a", "m">>, <<"b", "e", "e", "n">>, <<"b", "e", "i", "n", "g">>,
    <<"t", "h", "e", "r", "e">>, <<"h", "e", "r", "e">>, <<"j", "u", "s", "t">>,
    <<"a", "b", "o", "u", "t">>, <<"a", "l", "s", "o">>, <<"s", "o", "m", "e">>,
    <<"a", "n", "y">>, <<"a", "l", "l">>, <<"m", "o", "r", "e">>,
    <<"o", "t", "h", "e", "r">>, <<"s", "u", "c", "h">>, <<"n", "o">>,
    <<"n", "o", "t">>, <<"o", "n", "l", "y">>, <<"s", "a", "m", "e">>,
    <<"s", "o">>, <<"t", "h", "a", "n">>, <<"t", "o", "o">>, <<"v", "e", "r", "y">> }

LongEnough(word) == Len(word) > 2

NotStopWord(word) == word \notin STOP_WORDS

\* extractKeywords(query)
extractKeywords(query) ==
  LET words == SelectSeq(SelectSeq(SplitSpaces(ReplacePunctuation(LowerCase(query))),
                                   LongEnough),
                         NotStopWord)
  IN Dedupe(words)

\* haystack.includes(needle)
Includes(haystack, needle) ==
  \E i \in 0..(Len(haystack) - Len(needle)) :
     SubSeq(haystack, i + 1, i + Len(needle)) = needle

NoMatches == [score |-> 0, matchedKeywords |-> <<>>]

\* the keyword loop without its break: every matching chunk keyword counts
RECURSIVE KeywordPass_NoBreak(_, _, _)
KeywordPass_NoBreak(keywords, queryKeywords, acc) ==
  IF queryKeywords = <<>> THEN acc
  ELSE LET queryKw == Head(queryKeywords)
           hits == { i \in 1..Len(keywords) :
                       \/ Includes(keywords[i], queryKw)
                       \/ Includes(queryKw, keywords[i]) }
           pushed == [i \in 1..Cardinality(hits) |-> queryKw]
       IN KeywordPass_NoBreak(keywords, Tail(queryKeywords),
            [score |-> acc.score + 6 * Cardinality(hits),
             matchedKeywords |-> acc.matchedKeywords \o pushed])

\* scoreChunk, first loop: a query keyword that is part of a chunk keyword,
\* or has one as a part, adds 3 points once (the break) and is pushed
RECURSIVE KeywordPass(_, _, _)
KeywordPass(keywords, queryKeywords, acc) ==
  IF queryKeywords = <<>> THEN acc
  ELSE LET queryKw == Head(queryKeywords)
           hit == \E i \in 1..Len(keywords) :
                     \/ Includes(keywords[i], queryKw)
                     \/ Includes(queryKw, keywords[i])
       IN KeywordPass(keywords, Tail(queryKeywords),
            IF hit THEN [score |-> acc.score + 6,
                         matchedKeywords |-> Append(acc.matchedKeywords, queryKw)]
            ELSE acc)

\* scoreChunk, second and third loop: a query keyword found in the lowercased
\* text adds the weight and is pushed unless it is there already
RECURSIVE TextPass(_, _, _, _)
TextPass(textLower, queryKeywords, weight, acc) ==
  IF queryKeywords = <<>> THEN acc
  ELSE LET queryKw == Head(queryKeywords)
       IN TextPass(textLower, Tail(queryKeywords), weight,
            IF Includes(textLower, queryKw)
              THEN [score |-> acc.score + weight,
                    matchedKeywords |->
                      IF queryKw \in Range(acc.matchedKeywords)
                        THEN acc.matchedKeywords
                        ELSE Append(acc.matchedKeywords, queryKw)]
              ELSE acc)

\* scoreChunk(chunk, queryKeywords); weights 3, 2, 1 and 0.5 in half points
scoreChunk(chunk, queryKeywords) ==
  LET byKeyword == KeywordPass(chunk.keywords, queryKeywords, NoMatches)
      byTitle == TextPass(LowerCase(chunk.title), queryKeywords, 4, byKeyword)
      byContent == TextPass(LowerCase(chunk.content), queryKeywords, 2, byTitle)
      uniqueMatches == Cardinality(Range(byContent.matchedKeywords))
  IN [chunk |-> chunk,
      score |-> byContent.score + uniqueMatches,
      matchedKeywords |-> Dedupe(byContent.matchedKeywords)]

\* array.sort((a, b) => b.score - a.score) without stability: equal scores
\* come out in reverse order
RECURSIVE SortByScore_Unstable(_)
SortByScore_Unstable(results) ==
  IF results = <<>> THEN <<>>
  ELSE LET front == SortByScore_Unstable(SubSeq(results, 1, Len(results) - 1))
           last == results[Len(results)]
           before == SelectSeq(front, LAMBDA r : r.score > last.score)
           after == SelectSeq(front, LAMBDA r : r.score <= last.score)
       IN before \o <<last>> \o after

\* array.sort((a, b) => b.score - a.score): a stable sort, so an element
\* goes behind every earlier element whose score is not smaller
RECURSIVE SortByScore(_)
SortByScore(results) ==
  IF results = <<>> THEN <<>>
  ELSE LET front == SortByScore(SubSeq(results, 1, Len(results) - 1))
           last == results[Len(results)]
           before == SelectSeq(front, LAMBDA r : r.score >= last.score)
           after == SelectSeq(front, LAMBDA r : r.score < last.score)
       IN before \o <<last>> \o after

Max(a, b) == IF a > b THEN a ELSE b

\* array.slice(0, end) that ignores end
SliceFirst_All(s, end) == s

\* array.slice(0, end): a negative end counts from the end of the array
SliceFirst(s, end) ==
  IF end >= 0 THEN SubSeq(s, 1, Min(end, Len(s)))
  ELSE SubSeq(s, 1, Max(Len(s) + end, 0))

\* retrieveRelevantChunks without the early return on an empty keyword list
retrieveRun_NoFastPath(query, chunks, topK, minScore) ==
  LET queryKeywords == extractKeywords(query)
      scoredChunks == [i \in 1..Len(chunks) |-> scoreChunk(chunks[i], queryKeywords)]
      relevantChunks ==
        SliceFirst(SortByScore(SelectSeq(scoredChunks,
                                         LAMBDA result : result.score >= minScore)),
                   topK)
  IN [results |-> relevantChunks, scored |-> Len(scoredChunks)]

\* retrieveRelevantChunks(query, topK, minScore) over the corpus chunks (the
\* imported knowledgeBase): its result and the number of chunks it scored
retrieveRun(query, chunks, topK, minScore) ==
  LET queryKeywords == extractKeywords(query)
      scoredChunks == [i \in 1..Len(chunks) |-> scoreChunk(chunks[i], queryKeywords)]
      relevantChunks ==
        SliceFirst(SortByScore(SelectSeq(scoredChunks,
                                         LAMBDA result : result.score >= minScore)),
                   topK)
  IN IF Len(queryKeywords) = 0
       THEN [results |-> <<>>, scored |-> 0]
       ELSE [results |-> relevantChunks, scored |-> Len(scoredChunks)]

retrieveRelevantChunks(query, chunks, topK, minScore) ==
  retrieveRun(query, chunks, topK, minScore).results

DigitChar == <<"0", "1", "2", "3", "4", "5", "6", "7", "8", "9">>

\* the decimal digits `${n}` writes for a natural number
RECURSIVE Decimal(_)
Decimal(n) ==
  IF n < 10 THEN <<DigitChar[n + 1]>>
  ELSE Decimal(n \div 10) \o <<DigitChar[(n % 10) + 1]>>

\* array.join(separator)
RECURSIVE Join(_, _)
Join(parts, separator) ==
  IF parts = <<>> THEN <<>>
  ELSE IF Len(parts) = 1 THEN parts[1]
  ELSE parts[1] \o separator \o Join(Tail(parts), separator)

DocumentLabel == <<"[", "D", "o", "c", "u", "m", "e", "n", "t", " ">>

DocumentSeparator == <<"\n", "\n", "-", "-", "-", "\n", "\n">>

\* `[Document ${index + 1}: ${result.chunk.title}]\n${result.chunk.content}`
contextPart(result, index) ==
  DocumentLabel \o Decimal(index + 1) \o <<":", " ">> \o result.chunk.title
    \o <<"]", "\n">> \o result.chunk.content

\* formatContextForPrompt that writes the content of the chunks only
formatContextForPrompt_ContentOnly(results) ==
  Join([i \in 1..Len(results) |-> results[i].chunk.content], DocumentSeparator)

\* formatContextForPrompt(results)
formatContextForPrompt(results) ==
  IF Len(results) = 0 THEN <<>>
  ELSE Join([i \in 1..Len(results) |-> contextPart(results[i], i - 1)],
            DocumentSeparator)

\* getRelevantContext(query): retrieveRelevantChunks(query, 4, 2), the
\* minimum score of 2 being 4 half points
getRelevantContext(query, chunks) ==
  LET found == retrieveRelevantChunks(query, chunks, 4, 4)
      context == formatContextForPrompt(found)
  IN [context |-> context, hasRelevantInfo |-> Len(found) > 0, chunks |-> found]

\* retrieveContext(query)
retrieveContext(query, chunks) ==
  LET result == getRelevantContext(query, chunks)
  IN [context |-> result.context,
      hasContext |-> result.hasRelevantInfo,
      chunks |-> [i \in 1..Len(result.chunks) |-> result.chunks[i].chunk]]

(***************************************************************************)
(* The knowledge base (src/data/knowledgeBase.ts)                          *)
(***************************************************************************)
\* import.meta.env.VITE_COMPANY_NAME || 'Our Company', the variable not set
COMPANY_NAME == <<"O", "u", "r", " ", "C", "o", "m", "p", "a", "n", "y">>

\* the sixteen chunks of the array, in the order of the source
knowledgeBase ==
  LET
      KbServicesOverview ==
        [id |-> "services-overview",
         title |->
           <<"S", "e", "r", "v", "i", "c", "e", "s", " ", "O", "f", "f", "e", "r",
             "e", "d">>,
         category |-> "Services",
         content |->
           COMPANY_NAME
           \o
           <<" ", "p", "r", "o", "v", "i", "d", "e", "s", " ", "t", "h", "e", " ",
             "f", "o", "l", "l", "o", "w", "i", "n", "g", " ", "s", "e", "r", "v",
             "i", "c", "e", "s", ":", "\n", "-", " ", "C", "u", "s", "t", "o", "m",
             " ", "w", "e", "b", "s", "i", "t", "e", " ", "d", "e", "v", "e", "l",
             "o", "p", "m", "e", "n", "t", "\n", "-", " ", "W", "e", "b", " ", "a",
             "p", "p", "l", "i", "c", "a", "t", "i", "o", "n", " ", "d", "e", "v",
             "e", "l", "o", "p", "m", "e", "n", "t", "\n", "-", " ", "S", "a", "a",
             "S", " ", "M", "V", "P", " ", "d", "e", "v", "e", "l", "o", "p", "m",
             "e", "n", "t", "\n", "-", " ", "A", "I", "-", "p", "o", "w", "e", "r",
             "e", "d", " ", "c", "h", "a", "t", "b", "o", "t", " ", "i", "n", "t",
             "e", "g", "r", "a", "t", "i", "o", "n", "\n", "-", " ", "I", "n", "t",
             "e", "r", "n", "a", "l", " ", "b", "u", "s", "i", "n", "e", "s", "s",
             " ", "t", "o", "o", "l", "s", "\n", "-", " ", "A", "P", "I", " ", "d",
             "e", "v", "e", "l", "o", "p", "m", "e", "n", "t", " ", "a", "n", "d",
             " ", "i", "n", "t", "e", "g", "r", "a", "t", "i", "o", "n", "\n", "-",
             " ", "M", "a", "i", "n", "t", "e", "n", "a", "n", "c", "e", " ", "a",
             "n", "d", " ", "t", "e", "c", "h", "n", "i", "c", "a", "l", " ", "s",
             "u", "p", "p", "o", "r", "t", "\n", "-", " ", "U", "I", "/", "U", "X",
             " ", "i", "m", "p", "l", "e", "m", "e", "n", "t", "a", "t", "i", "o",
             "n", " ", "f", "r", "o", "m", " ", "d", "e", "s", "i", "g", "n", " ",
             "f", "i", "l", "e", "s", "\n", "\n", "W", "e", " ", "w", "o", "r",
             "k", " ", "p", "r", "i", "m", "a", "r", "i", "l", "y", " ", "w", "i",
             "t", "h", " ", "m", "o", "d", "e", "r", "n", " ", "w", "e", "b", " ",
             "t", "e", "c", "h", "n", "o", "l", "o", "g", "i", "e", "s", " ", "s",
             "u", "c", "h", " ", "a", "s", " ", "J", "a", "v", "a", "S", "c", "r",
             "i", "p", "t", ",", " ", "R", "e", "a", "c", "t", ",", " ", "N", "o",
             "d", "e", ".", "j", "s", ",", " ", "a", "n", "d", " ", "c", "l", "o",
             "u", "d", "-", "b", "a", "s", "e", "d", " ", "s", "o", "l", "u", "t",
             "i", "o", "n", "s", ".">>,
         keywords |-> <<
            <<"s", "e", "r", "v", "i", "c", "e", "s">>,
            <<"w", "e", "b", "s", "i", "t", "e">>,
            <<"w", "e", "b">>,
            <<"a", "p", "p", "l", "i", "c", "a", "t", "i", "o", "n">>,
            <<"s", "a", "a", "s">>,
            <<"m", "v", "p">>,
            <<"c", "h", "a", "t", "b", "o", "t">>,
            <<"a", "i">>,
            <<"t", "o", "o", "l", "s">>,
            <<"a", "p", "i">>,
            <<"m", "a", "i", "n", "t", "e", "n", "a", "n", "c", "e">>,
            <<"s", "u", "p", "p", "o", "r", "t">>,
            <<"u", "i">>,
            <<"u", "x">>,
            <<"d", "e", "s", "i", "g", "n">>,
            <<"j", "a", "v", "a", "s", "c", "r", "i", "p", "t">>,
            <<"r", "e", "a", "c", "t">>,
            <<"n", "o", "d", "e">>,
            <<"c", "l", "o", "u", "d">>,
            <<"d", "e", "v", "e", "l", "o", "p", "m", "e", "n", "t">>,
            <<"b", "u", "i", "l", "d">>,
            <<"c", "r", "e", "a", "t", "e">>,
            <<"o", "f", "f", "e", "r">>,
            <<"p", "r", "o", "v", "i", "d", "e">>,
            <<"w", "h", "a", "t">>,
            <<"d", "o">>,
            <<"y", "o", "u">>>>]

      KbSupportHours ==
        [id |-> "support-hours",
         title |->
           <<"C", "u", "s", "t", "o", "m", "e", "r", " ", "S", "u", "p", "p", "o",
             "r", "t", " ", "H", "o", "u", "r", "s">>,
         category |-> "Support",
         content |->
           <<"O", "u", "r", " ", "c", "u", "s", "t", "o", "m", "e", "r", " ", "s",
             "u", "p", "p", "o", "r", "t", " ", "t", "e", "a", "m", " ", "i", "s",
             " ", "a", "v", "a", "i", "l", "a", "b", "l", "e", ":", "\n", "-", " ",
             "M", "o", "n", "d", "a", "y", " ", "t", "o", " ", "F", "r", "i", "d",
             "a", "y", "\n", "-", " ", "F", "r", "o", "m", " ", "9", ":", "0", "0",
             " ", "A", "M", " ", "t", "o", " ", "6", ":", "0", "0", " ", "P", "M",
             " ", "(", "U", "T", "C", ")", "\n", "\n", "S", "u", "p", "p", "o",
             "r", "t", " ", "r", "e", "q", "u", "e", "s", "t", "s", " ", "s", "u",
             "b", "m", "i", "t", "t", "e", "d", " ", "o", "u", "t", "s", "i", "d",
             "e", " ", "b", "u", "s", "i", "n", "e", "s", "s", " ", "h", "o", "u",
             "r", "s", " ", "a", "r", "e", " ", "p", "r", "o", "c", "e", "s", "s",
             "e", "d", " ", "t", "h", "e", " ", "n", "e", "x", "t", " ", "b", "u",
             "s", "i", "n", "e", "s", "s", " ", "d", "a", "y", ".">>,
         keywords |-> <<
            <<"s", "u", "p", "p", "o", "r", "t">>,
            <<"h", "o", "u", "r", "s">>,
            <<"t", "i", "m", "e">>,
            <<"a", "v", "a", "i", "l", "a", "b", "l", "e">>,
            <<"a", "v", "a", "i", "l", "a", "b", "i", "l", "i", "t", "y">>,
            <<"m", "o", "n", "d", "a", "y">>,
            <<"f", "r", "i", "d", "a", "y">>,
            <<"b", "u", "s", "i", "n", "e", "s", "s">>,
            <<"c", "o", "n", "t", "a", "c", "t">>,
            <<"w", "h", "e", "n">>,
            <<"o", "p", "e", "n">>,
            <<"s", "c", "h", "e", "d", "u", "l", "e">>,
            <<"u", "t", "c">>,
            <<"c", "u", "s", "t", "o", "m", "e", "r">>,
            <<"h", "e", "l", "p">>,
            <<"r", "e", "a", "c", "h">>,
            <<"w", "o", "r", "k", "i", "n", "g">>>>]

      KbPricingBilling ==
        [id |-> "pricing-billing",
         title |->
           <<"P", "r", "i", "c", "i", "n", "g", " ", "&", " ", "B", "i", "l", "l",
             "i", "n", "g">>,
         category |-> "Pricing",
         content |->
           COMPANY_NAME
           \o
           <<" ", "o", "f", "f", "e", "r", "s", " ", "f", "l", "e", "x", "i", "b",
             "l", "e", " ", "p", "r", "i", "c", "i", "n", "g", " ", "m", "o", "d",
             "e", "l", "s", " ", "d", "e", "p", "e", "n", "d", "i", "n", "g", " ",
             "o", "n", " ", "t", "h", "e", " ", "p", "r", "o", "j", "e", "c", "t",
             ":", "\n", "-", " ", "F", "i", "x", "e", "d", "-", "p", "r", "i", "c",
             "e", " ", "p", "r", "o", "j", "e", "c", "t", "s", " ", "f", "o", "r",
             " ", "c", "l", "e", "a", "r", "l", "y", " ", "d", "e", "f", "i", "n",
             "e", "d", " ", "s", "c", "o", "p", "e", "s", "\n", "-", " ", "H", "o",
             "u", "r", "l", "y", " ", "b", "i", "l", "l", "i", "n", "g", " ", "f",
             "o", "r", " ", "o", "n", "g", "o", "i", "n", "g", " ", "o", "r", " ",
             "e", "v", "o", "l", "v", "i", "n", "g", " ", "p", "r", "o", "j", "e",
             "c", "t", "s", "\n", "-", " ", "M", "o", "n", "t", "h", "l", "y", " ",
             "m", "a", "i", "n", "t", "e", "n", "a", "n", "c", "e", " ", "p", "l",
             "a", "n", "s", " ", "f", "o", "r", " ", "l", "o", "n", "g", "-", "t",
             "e", "r", "m", " ", "c", "l", "i", "e", "n", "t", "s", "\n", "\n",
             "I", "n", "v", "o", "i", "c", "e", "s", " ", "a", "r", "e", " ", "i",
             "s", "s", "u", "e", "d", " ", "a", "t", " ", "t", "h", "e", " ", "b",
             "e", "g", "i", "n", "n", "i", "n", "g", " ", "o", "r", " ", "e", "n",
             "d", " ", "o", "f", " ", "e", "a", "c", "h", " ", "b", "i", "l", "l",
             "i", "n", "g", " ", "c", "y", "c", "l", "e", ",", " ", "d", "e", "p",
             "e", "n", "d", "i", "n", "g", " ", "o", "n", " ", "t", "h", "e", " ",
             "a", "g", "r", "e", "e", "m", "e", "n", "t", ".", " ", "P", "a", "y",
             "m", "e", "n", "t", "s", " ", "a", "r", "e", " ", "a", "c", "c", "e",
             "p", "t", "e", "d", " ", "v", "i", "a", " ", "b", "a", "n", "k", " ",
             "t", "r", "a", "n", "s", "f", "e", "r", " ", "o", "r", " ", "o", "n",
             "l", "i", "n", "e", " ", "p", "a", "y", "m", "e", "n", "t", " ", "p",
             "l", "a", "t", "f", "o", "r", "m", "s", ".">>,
         keywords |-> <<
            <<"p", "r", "i", "c", "i", "n", "g">>,
            <<"p", "r", "i", "c", "e">>,
            <<"c", "o", "s", "t">>,
            <<"b", "i", "l", "l", "i", "n", "g">>,
            <<"i", "n", "v", "o", "i", "c", "e">>,
            <<"p", "a", "y", "m", "e", "n", "t">>,
            <<"p", "a", "y">>,
            <<"f", "i", "x", "e", "d">>,
            <<"h", "o", "u", "r", "l", "y">>,
            <<"m", "o", "n", "t", "h", "l", "y">>,
            <<"r", "a", "t", "e">>,
            <<"c", "h", "a", "r", "g", "e">>,
            <<"f", "e", "e">>,
            <<"m", "o", "n", "e", "y">>,
            <<"b", "u", "d", "g", "e", "t">>,
            <<"q", "u", "o", "t", "e">>,
            <<"e", "s", "t", "i", "m", "a", "t", "e">>,
            <<"b", "a", "n", "k">>,
            <<"t", "r", "a", "n", "s", "f", "e", "r">>,
            <<"h", "o", "w">>,
            <<"m", "u", "c", "h">>>>]

      KbProjectProcess ==
        [id |-> "project-process",
         title |->
           <<"P", "r", "o", "j", "e", "c", "t", " ", "P", "r", "o", "c", "e", "s",
             "s", " ", "&", " ", "W", "o", "r", "k", "f", "l", "o", "w">>,
         category |-> "Process",
         content |->
           <<"O", "u", "r", " ", "t", "y", "p", "i", "c", "a", "l", " ", "p", "r",
             "o", "j", "e", "c", "t", " ", "w", "o", "r", "k", "f", "l", "o", "w",
             " ", "i", "n", "c", "l", "u", "d", "e", "s", ":", "\n", "1", ".", " ",
             "I", "n", "i", "t", "i", "a", "l", " ", "c", "o", "n", "s", "u", "l",
             "t", "a", "t", "i", "o", "n", " ", "a", "n", "d", " ", "r", "e", "q",
             "u", "i", "r", "e", "m", "e", "n", "t", " ", "g", "a", "t", "h", "e",
             "r", "i", "n", "g", "\n", "2", ".", " ", "P", "r", "o", "p", "o", "s",
             "a", "l", " ", "a", "n", "d", " ", "t", "i", "m", "e", "l", "i", "n",
             "e", " ", "a", "p", "p", "r", "o", "v", "a", "l", "\n", "3", ".", " ",
             "D", "e", "s", "i", "g", "n", " ", "a", "n", "d", " ", "d", "e", "v",
             "e", "l", "o", "p", "m", "e", "n", "t", " ", "p", "h", "a", "s", "e",
             "\n", "4", ".", " ", "T", "e", "s", "t", "i", "n", "g", " ", "a", "n",
             "d", " ", "q", "u", "a", "l", "i", "t", "y", " ", "a", "s", "s", "u",
             "r", "a", "n", "c", "e", "\n", "5", ".", " ", "D", "e", "p", "l", "o",
             "y", "m", "e", "n", "t", " ", "a", "n", "d", " ", "d", "e", "l", "i",
             "v", "e", "r", "y", "\n", "6", ".", " ", "P", "o", "s", "t", "-", "l",
             "a", "u", "n", "c", "h", " ", "s", "u", "p", "p", "o", "r", "t", " ",
             "a", "n", "d", " ", "m", "a", "i", "n", "t", "e", "n", "a", "n", "c",
             "e", "\n", "\n", "C", "l", "i", "e", "n", "t", "s", " ", "a", "r",
             "e", " ", "k", "e", "p", "t", " ", "i", "n", "f", "o", "r", "m", "e",
             "d", " ", "t", "h", "r", "o", "u", "g", "h", "o", "u", "t", " ", "t",
             "h", "e", " ", "p", "r", "o", "j", "e", "c", "t", " ", "w", "i", "t",
             "h", " ", "r", "e", "g", "u", "l", "a", "r", " ", "u", "p", "d", "a",
             "t", "e", "s", ".">>,
         keywords |-> <<
            <<"p", "r", "o", "j", "e", "c", "t">>,
            <<"p", "r", "o", "c", "e", "s", "s">>,
            <<"w", "o", "r", "k", "f", "l", "o", "w">>,
            <<"s", "t", "e", "p", "s">>,
            <<"p", "h", "a", "s", "e", "s">>,
            <<"c", "o", "n", "s", "u", "l", "t", "a", "t", "i", "o", "n">>,
            <<"r", "e", "q", "u", "i", "r", "e", "m", "e", "n", "t", "s">>,
            <<"p", "r", "o", "p", "o", "s", "a", "l">>,
            <<"t", "i", "m", "e", "l", "i", "n", "e">>,
            <<"d", "e", "s", "i", "g", "n">>,
            <<"d", "e", "v", "e", "l", "o", "p", "m", "e", "n", "t">>,
            <<"t", "e", "s", "t", "i", "n", "g">>,
            <<"q", "a">>,
            <<"q", "u", "a", "l", "i", "t", "y">>,
            <<"d", "e", "p", "l", "o", "y", "m", "e", "n", "t">>,
            <<"d", "e", "l", "i", "v", "e", "r", "y">>,
            <<"l", "a", "u", "n", "c", "h">>,
            <<"u", "p", "d", "a", "t", "e", "s">>,
            <<"h", "o", "w">>,
            <<"w", "o", "r", "k">>,
            <<"s", "t", "a", "r", "t">>,
            <<"b", "e", "g", "i", "n">>,
            <<"s", "t", "a", "g", "e", "s">>>>]

      KbTechnicalSupport ==
        [id |-> "technical-support",
         title |->
           <<"T", "e", "c", "h", "n", "i", "c", "a", "l", " ", "S", "u", "p", "p",
             "o", "r", "t", " ", "&", " ", "M", "a", "i", "n", "t", "e", "n", "a",
             "n", "c", "e">>,
         category |-> "Support",
         content |->
           <<"W", "e", " ", "p", "r", "o", "v", "i", "d", "e", " ", "o", "n", "g",
             "o", "i", "n", "g", " ", "t", "e", "c", "h", "n", "i", "c", "a", "l",
             " ", "s", "u", "p", "p", "o", "r", "t", " ", "a", "f", "t", "e", "r",
             " ", "p", "r", "o", "j", "e", "c", "t", " ", "d", "e", "l", "i", "v",
             "e", "r", "y", ".", " ", "T", "h", "i", "s", " ", "i", "n", "c", "l",
             "u", "d", "e", "s", ":", "\n", "-", " ", "B", "u", "g", " ", "f", "i",
             "x", "e", "s", "\n", "-", " ", "S", "e", "c", "u", "r", "i", "t", "y",
             " ", "u", "p", "d", "a", "t", "e", "s", "\n", "-", " ", "P", "e", "r",
             "f", "o", "r", "m", "a", "n", "c", "e", " ", "i", "m", "p", "r", "o",
             "v", "e", "m", "e", "n", "t", "s", "\n", "-", " ", "M", "i", "n", "o",
             "r", " ", "f", "e", "a", "t", "u", "r", "e", " ", "e", "n", "h", "a",
             "n", "c", "e", "m", "e", "n", "t", "s", "\n", "\n", "M", "a", "i",
             "n", "t", "e", "n", "a", "n", "c", "e", " ", "p", "l", "a", "n", "s",
             " ", "a", "r", "e", " ", "a", "v", "a", "i", "l", "a", "b", "l", "e",
             " ", "o", "n", " ", "a", " ", "m", "o", "n", "t", "h", "l", "y", " ",
             "b", "a", "s", "i", "s", " ", "a", "n", "d", " ", "c", "a", "n", " ",
             "b", "e", " ", "c", "u", "s", "t", "o", "m", "i", "z", "e", "d", " ",
             "t", "o", " ", "c", "l", "i", "e", "n", "t", " ", "n", "e", "e", "d",
             "s", ".">>,
         keywords |-> <<
            <<"t", "e", "c", "h", "n", "i", "c", "a", "l">>,
            <<"s", "u", "p", "p", "o", "r", "t">>,
            <<"m", "a", "i", "n", "t", "e", "n", "a", "n", "c", "e">>,
            <<"b", "u", "g">>,
            <<"f", "i", "x">>,
            <<"s", "e", "c", "u", "r", "i", "t", "y">>,
            <<"u", "p", "d", "a", "t", "e">>,
            <<"p", "e", "r", "f", "o", "r", "m", "a", "n", "c", "e">>,
            <<"e", "n", "h", "a", "n", "c", "e", "m", "e", "n", "t">>,
            <<"m", "o", "n", "t", "h", "l", "y">>,
            <<"p", "l", "a", "n">>,
            <<"o", "n", "g", "o", "i", "n", "g">>,
            <<"a", "f", "t", "e", "r">>,
            <<"d", "e", "l", "i", "v", "e", "r", "y">>,
            <<"h", "e", "l", "p">>,
            <<"i", "s", "s", "u", "e">>,
            <<"p", "r", "o", "b", "l", "e", "m">>,
            <<"e", "r", "r", "o", "r">>>>]

      KbAiChatbotServices ==
        [id |-> "ai-chatbot-services",
         title |->
           <<"A", "I", " ", "C", "h", "a", "t", "b", "o", "t", " ", "S", "e", "r",
             "v", "i", "c", "e", "s">>,
         category |-> "Services",
         content |->
           COMPANY_NAME
           \o
           <<" ", "o", "f", "f", "e", "r", "s", " ", "A", "I", "-", "p", "o", "w",
             "e", "r", "e", "d", " ", "c", "h", "a", "t", "b", "o", "t", " ", "s",
             "o", "l", "u", "t", "i", "o", "n", "s", " ", "t", "h", "a", "t", " ",
             "h", "e", "l", "p", " ", "b", "u", "s", "i", "n", "e", "s", "s", "e",
             "s", ":", "\n", "-", " ", "A", "n", "s", "w", "e", "r", " ", "c", "u",
             "s", "t", "o", "m", "e", "r", " ", "q", "u", "e", "s", "t", "i", "o",
             "n", "s", " ", "a", "u", "t", "o", "m", "a", "t", "i", "c", "a", "l",
             "l", "y", "\n", "-", " ", "R", "e", "d", "u", "c", "e", " ", "s", "u",
             "p", "p", "o", "r", "t", " ", "w", "o", "r", "k", "l", "o", "a", "d",
             "\n", "-", " ", "P", "r", "o", "v", "i", "d", "e", " ", "2", "4", "/",
             "7", " ", "a", "s", "s", "i", "s", "t", "a", "n", "c", "e", "\n", "-",
             " ", "I", "m", "p", "r", "o", "v", "e", " ", "r", "e", "s", "p", "o",
             "n", "s", "e", " ", "t", "i", "m", "e", " ", "a", "n", "d", " ", "c",
             "u", "s", "t", "o", "m", "e", "r", " ", "s", "a", "t", "i", "s", "f",
             "a", "c", "t", "i", "o", "n", "\n", "\n", "O", "u", "r", " ", "c",
             "h", "a", "t", "b", "o", "t", "s", " ", "c", "a", "n", " ", "b", "e",
             " ", "t", "r", "a", "i", "n", "e", "d", " ", "o", "n", " ", "c", "o",
             "m", "p", "a", "n", "y", "-", "s", "p", "e", "c", "i", "f", "i", "c",
             " ", "d", "o", "c", "u", "m", "e", "n", "t", "s", " ", "s", "u", "c",
             "h", " ", "a", "s", " ", "F", "A", "Q", "s", ",", " ", "p", "o", "l",
             "i", "c", "i", "e", "s", ",", " ", "a", "n", "d", " ", "i", "n", "t",
             "e", "r", "n", "a", "l", " ", "d", "o", "c", "u", "m", "e", "n", "t",
             "a", "t", "i", "o", "n", ".">>,
         keywords |-> <<
            <<"a", "i">>,
            <<"c", "h", "a", "t", "b", "o", "t">>,
            <<"b", "o", "t">>,
            <<"a", "r", "t", "i", "f", "i", "c", "i", "a", "l">>,
            <<"i", "n", "t", "e", "l", "l", "i", "g", "e", "n", "c", "e">>,
            <<"a", "u", "t", "o", "m", "a", "t", "i", "o", "n">>,
            <<"a", "u", "t", "o", "m", "a", "t", "i", "c">>,
            <<"2", "4", "/", "7">>,
            <<"q", "u", "e", "s", "t", "i", "o", "n", "s">>,
            <<"a", "n", "s", "w", "e", "r", "s">>,
            <<"s", "u", "p", "p", "o", "r", "t">>,
            <<"c", "u", "s", "t", "o", "m", "e", "r">>,
            <<"t", "r", "a", "i", "n">>,
            <<"t", "r", "a", "i", "n", "i", "n", "g">>,
            <<"d", "o", "c", "u", "m", "e", "n", "t", "s">>,
            <<"f", "a", "q">>,
            <<"a", "s", "s", "i", "s", "t", "a", "n", "t">>>>]

      KbDataPrivacySecurity ==
        [id |-> "data-privacy-security",
         title |->
           <<"D", "a", "t", "a", " ", "P", "r", "i", "v", "a", "c", "y", " ", "&",
             " ", "S", "e", "c", "u", "r", "i", "t", "y">>,
         category |-> "Security",
         content |->
           <<"W", "e", " ", "t", "a", "k", "e", " ", "d", "a", "t", "a", " ", "p",
             "r", "i", "v", "a", "c", "y", " ", "s", "e", "r", "i", "o", "u", "s",
             "l", "y", ".", "\n", "-", " ", "C", "l", "i", "e", "n", "t", " ", "d",
             "a", "t", "a", " ", "i", "s", " ", "n", "e", "v", "e", "r", " ", "s",
             "h", "a", "r", "e", "d", " ", "w", "i", "t", "h", " ", "t", "h", "i",
             "r", "d", " ", "p", "a", "r", "t", "i", "e", "s", "\n", "-", " ", "A",
             "l", "l", " ", "d", "a", "t", "a", " ", "i", "s", " ", "p", "r", "o",
             "c", "e", "s", "s", "e", "d", " ", "s", "e", "c", "u", "r", "e", "l",
             "y", "\n", "-", " ", "A", "c", "c", "e", "s", "s", " ", "t", "o", " ",
             "i", "n", "t", "e", "r", "n", "a", "l", " ", "s", "y", "s", "t", "e",
             "m", "s", " ", "i", "s", " ", "r", "e", "s", "t", "r", "i", "c", "t",
             "e", "d", "\n", "-", " ", "A", "I", " ", "s", "y", "s", "t", "e", "m",
             "s", " ", "a", "r", "e", " ", "c", "o", "n", "f", "i", "g", "u", "r",
             "e", "d", " ", "t", "o", " ", "u", "s", "e", " ", "o", "n", "l", "y",
             " ", "a", "p", "p", "r", "o", "v", "e", "d", " ", "d", "a", "t", "a",
             " ", "s", "o", "u", "r", "c", "e", "s", "\n", "\n", "W", "e", " ",
             "c", "o", "m", "p", "l", "y", " ", "w", "i", "t", "h", " ", "g", "e",
             "n", "e", "r", "a", "l", " ", "d", "a", "t", "a", " ", "p", "r", "o",
             "t", "e", "c", "t", "i", "o", "n", " ", "p", "r", "i", "n", "c", "i",
             "p", "l", "e", "s", " ", "a", "n", "d", " ", "b", "e", "s", "t", " ",
             "p", "r", "a", "c", "t", "i", "c", "e", "s", ".">>,
         keywords |-> <<
            <<"d", "a", "t", "a">>,
            <<"p", "r", "i", "v", "a", "c", "y">>,
            <<"s", "e", "c", "u", "r", "i", "t", "y">>,
            <<"s", "e", "c", "u", "r", "e">>,
            <<"p", "r", "o", "t", "e", "c", "t", "i", "o", "n">>,
            <<"g", "d", "p", "r">>,
            <<"c", "o", "n", "f", "i", "d", "e", "n", "t", "i", "a", "l">>,
            <<"s", "a", "f", "e">>,
            <<"t", "h", "i", "r", "d">>,
            <<"p", "a", "r", "t", "y">>,
            <<"a", "c", "c", "e", "s", "s">>,
            <<"r", "e", "s", "t", "r", "i", "c", "t", "e", "d">>,
            <<"c", "o", "m", "p", "l", "i", "a", "n", "c", "e">>,
            <<"i", "n", "f", "o", "r", "m", "a", "t", "i", "o", "n">>,
            <<"p", "r", "i", "v", "a", "t", "e">>>>]

      KbAccountAccess ==
        [id |-> "account-access",
         title |->
           <<"A", "c", "c", "o", "u", "n", "t", " ", "&", " ", "A", "c", "c", "e",
             "s", "s", " ", "C", "r", "e", "d", "e", "n", "t", "i", "a", "l", "s">>,
         category |-> "Security",
         content |->
           <<"C", "l", "i", "e", "n", "t", "s", " ", "r", "e", "c", "e", "i", "v",
             "e", " ", "s", "e", "c", "u", "r", "e", " ", "a", "c", "c", "e", "s",
             "s", " ", "c", "r", "e", "d", "e", "n", "t", "i", "a", "l", "s", " ",
             "f", "o", "r", " ", "a", "n", "y", " ", "s", "y", "s", "t", "e", "m",
             "s", " ", "d", "e", "v", "e", "l", "o", "p", "e", "d", " ", "b", "y",
             " ">>
           \o
           COMPANY_NAME
           \o
           <<".", "\n", "\n", "I", "t", " ", "i", "s", " ", "t", "h", "e", " ",
             "c", "l", "i", "e", "n", "t", "'", "s", " ", "r", "e", "s", "p", "o",
             "n", "s", "i", "b", "i", "l", "i", "t", "y", " ", "t", "o", " ", "k",
             "e", "e", "p", " ", "l", "o", "g", "i", "n", " ", "c", "r", "e", "d",
             "e", "n", "t", "i", "a", "l", "s", " ", "c", "o", "n", "f", "i", "d",
             "e", "n", "t", "i", "a", "l", ".", " ">>
           \o
           COMPANY_NAME
           \o
           <<" ", "i", "s", " ", "n", "o", "t", " ", "r", "e", "s", "p", "o", "n",
             "s", "i", "b", "l", "e", " ", "f", "o", "r", " ", "i", "s", "s", "u",
             "e", "s", " ", "c", "a", "u", "s", "e", "d", " ", "b", "y", " ", "u",
             "n", "a", "u", "t", "h", "o", "r", "i", "z", "e", "d", " ", "a", "c",
             "c", "e", "s", "s", " ", "d", "u", "e", " ", "t", "o", " ", "c", "r",
             "e", "d", "e", "n", "t", "i", "a", "l", " ", "s", "h", "a", "r", "i",
             "n", "g", ".">>,
         keywords |-> <<
            <<"a", "c", "c", "o", "u", "n", "t">>,
            <<"a", "c", "c", "e", "s", "s">>,
            <<"c", "r", "e", "d", "e", "n", "t", "i", "a", "l", "s">>,
            <<"l", "o", "g", "i", "n">>,
            <<"p", "a", "s", "s", "w", "o", "r", "d">>,
            <<"s", "e", "c", "u", "r", "e">>,
            <<"r", "e", "s", "p", "o", "n", "s", "i", "b", "i", "l", "i", "t", "y">>,
            <<"u", "n", "a", "u", "t", "h", "o", "r", "i", "z", "e", "d">>,
            <<"s", "h", "a", "r", "i", "n", "g">>,
            <<"c", "o", "n", "f", "i", "d", "e", "n", "t", "i", "a", "l">>,
            <<"u", "s", "e", "r", "n", "a", "m", "e">>>>]

      KbFaqRedesign ==
        [id |-> "faq-redesign",
         title |->
           <<"F", "A", "Q", ":", " ", "W", "e", "b", "s", "i", "t", "e", " ", "R",
             "e", "d", "e", "s", "i", "g", "n">>,
         category |-> "FAQ",
         content |->
           <<"Q", ":", " ", "D", "o", " ", "y", "o", "u", " ", "o", "f", "f", "e",
             "r", " ", "w", "e", "b", "s", "i", "t", "e", " ", "r", "e", "d", "e",
             "s", "i", "g", "n", " ", "s", "e", "r", "v", "i", "c", "e", "s", "?",
             "\n", "\n", "Y", "e", "s", ",", " ", "w", "e", " ", "r", "e", "d",
             "e", "s", "i", "g", "n", " ", "e", "x", "i", "s", "t", "i", "n", "g",
             " ", "w", "e", "b", "s", "i", "t", "e", "s", " ", "t", "o", " ", "i",
             "m", "p", "r", "o", "v", "e", " ", "p", "e", "r", "f", "o", "r", "m",
             "a", "n", "c", "e", ",", " ", "u", "s", "a", "b", "i", "l", "i", "t",
             "y", ",", " ", "a", "n", "d", " ", "m", "o", "d", "e", "r", "n", " ",
             "d", "e", "s", "i", "g", "n", " ", "s", "t", "a", "n", "d", "a", "r",
             "d", "s", ".">>,
         keywords |-> <<
            <<"r", "e", "d", "e", "s", "i", "g", "n">>,
            <<"w", "e", "b", "s", "i", "t", "e">>,
            <<"e", "x", "i", "s", "t", "i", "n", "g">>,
            <<"i", "m", "p", "r", "o", "v", "e">>,
            <<"u", "p", "d", "a", "t", "e">>,
            <<"r", "e", "f", "r", "e", "s", "h">>,
            <<"m", "o", "d", "e", "r", "n", "i", "z", "e">>,
            <<"r", "e", "v", "a", "m", "p">>,
            <<"o", "l", "d">>,
            <<"c", "u", "r", "r", "e", "n", "t">>,
            <<"r", "e", "m", "a", "k", "e">>,
            <<"o", "f", "f", "e", "r">>>>]

      KbFaqApiIntegration ==
        [id |-> "faq-api-integration",
         title |->
           <<"F", "A", "Q", ":", " ", "T", "h", "i", "r", "d", "-", "P", "a", "r",
             "t", "y", " ", "A", "P", "I", " ", "I", "n", "t", "e", "g", "r", "a",
             "t", "i", "o", "n">>,
         category |-> "FAQ",
         content |->
           <<"Q", ":", " ", "C", "a", "n", " ", "y", "o", "u", " ", "i", "n", "t",
             "e", "g", "r", "a", "t", "e", " ", "t", "h", "i", "r", "d", "-", "p",
             "a", "r", "t", "y", " ", "A", "P", "I", "s", "?", "\n", "\n", "Y",
             "e", "s", ",", " ", "w", "e", " ", "r", "e", "g", "u", "l", "a", "r",
             "l", "y", " ", "i", "n", "t", "e", "g", "r", "a", "t", "e", " ", "p",
             "a", "y", "m", "e", "n", "t", " ", "g", "a", "t", "e", "w", "a", "y",
             "s", ",", " ", "C", "R", "M", " ", "s", "y", "s", "t", "e", "m", "s",
             ",", " ", "a", "n", "d", " ", "e", "x", "t", "e", "r", "n", "a", "l",
             " ", "A", "P", "I", "s", ".">>,
         keywords |-> <<
            <<"a", "p", "i">>,
            <<"i", "n", "t", "e", "g", "r", "a", "t", "i", "o", "n">>,
            <<"i", "n", "t", "e", "g", "r", "a", "t", "e">>,
            <<"t", "h", "i", "r", "d", "-", "p", "a", "r", "t", "y">>,
            <<"p", "a", "y", "m", "e", "n", "t">>,
            <<"g", "a", "t", "e", "w", "a", "y">>,
            <<"c", "r", "m">>,
            <<"e", "x", "t", "e", "r", "n", "a", "l">>,
            <<"c", "o", "n", "n", "e", "c", "t">>,
            <<"s", "t", "r", "i", "p", "e">>,
            <<"p", "a", "y", "p", "a", "l">>,
            <<"s", "y", "s", "t", "e", "m">>>>]

      KbFaqMobileApp ==
        [id |-> "faq-mobile-app",
         title |->
           <<"F", "A", "Q", ":", " ", "M", "o", "b", "i", "l", "e", " ", "A", "p",
             "p", " ", "D", "e", "v", "e", "l", "o", "p", "m", "e", "n", "t">>,
         category |-> "FAQ",
         content |->
           <<"Q", ":", " ", "D", "o", " ", "y", "o", "u", " ", "p", "r", "o", "v",
             "i", "d", "e", " ", "m", "o", "b", "i", "l", "e", " ", "a", "p", "p",
             " ", "d", "e", "v", "e", "l", "o", "p", "m", "e", "n", "t", "?", "\n",
             "\n", "O", "u", "r", " ", "p", "r", "i", "m", "a", "r", "y", " ", "f",
             "o", "c", "u", "s", " ", "i", "s", " ", "w", "e", "b", " ", "a", "p",
             "p", "l", "i", "c", "a", "t", "i", "o", "n", "s", ".", " ", "M", "o",
             "b", "i", "l", "e", " ", "a", "p", "p", "s", " ", "m", "a", "y", " ",
             "b", "e", " ", "d", "e", "v", "e", "l", "o", "p", "e", "d", " ", "u",
             "s", "i", "n", "g", " ", "w", "e", "b", "-", "b", "a", "s", "e", "d",
             " ", "t", "e", "c", "h", "n", "o", "l", "o", "g", "i", "e", "s", " ",
             "d", "e", "p", "e", "n", "d", "i", "n", "g", " ", "o", "n", " ", "r",
             "e", "q", "u", "i", "r", "e", "m", "e", "n", "t", "s", ".">>,
         keywords |-> <<
            <<"m", "o", "b", "i", "l", "e">>,
            <<"a", "p", "p">>,
            <<"a", "p", "p", "l", "i", "c", "a", "t", "i", "o", "n">>,
            <<"i", "o", "s">>,
            <<"a", "n", "d", "r", "o", "i", "d">>,
            <<"p", "h", "o", "n", "e">>,
            <<"s", "m", "a", "r", "t", "p", "h", "o", "n", "e">>,
            <<"p", "w", "a">>,
            <<"r", "e", "s", "p", "o", "n", "s", "i", "v", "e">>,
            <<"n", "a", "t", "i", "v", "e">>>>]

      KbFaqExistingMaintenance ==
        [id |-> "faq-existing-maintenance",
         title |->
           <<"F", "A", "Q", ":", " ", "E", "x", "i", "s", "t", "i", "n", "g", " ",
             "P", "r", "o", "j", "e", "c", "t", " ", "M", "a", "i", "n", "t", "e",
             "n", "a", "n", "c", "e">>,
         category |-> "FAQ",
         content |->
           <<"Q", ":", " ", "C", "a", "n", " ", "y", "o", "u", " ", "m", "a", "i",
             "n", "t", "a", "i", "n", " ", "a", "n", " ", "e", "x", "i", "s", "t",
             "i", "n", "g", " ", "p", "r", "o", "j", "e", "c", "t", "?", "\n", "\n",
             "Y", "e", "s", ",", " ", "w", "e", " ", "o", "f", "f", "e", "r", " ",
             "m", "a", "i", "n", "t", "e", "n", "a", "n", "c", "e", " ", "s", "e",
             "r", "v", "i", "c", "e", "s", " ", "f", "o", "r", " ", "b", "o", "t",
             "h", " ", "p", "r", "o", "j", "e", "c", "t", "s", " ", "d", "e", "v",
             "e", "l", "o", "p", "e", "d", " ", "b", "y", " ", "u", "s", " ", "a",
             "n", "d", " ", "t", "h", "i", "r", "d", "-", "p", "a", "r", "t", "y",
             " ", "s", "y", "s", "t", "e", "m", "s", ".">>,
         keywords |-> <<
            <<"m", "a", "i", "n", "t", "a", "i", "n">>,
            <<"m", "a", "i", "n", "t", "e", "n", "a", "n", "c", "e">>,
            <<"e", "x", "i", "s", "t", "i", "n", "g">>,
            <<"p", "r", "o", "j", "e", "c", "t">>,
            <<"t", "h", "i", "r", "d", "-", "p", "a", "r", "t", "y">>,
            <<"l", "e", "g", "a", "c", "y">>,
            <<"o", "l", "d">>,
            <<"c", "u", "r", "r", "e", "n", "t">>,
            <<"t", "a", "k", "e">>,
            <<"o", "v", "e", "r">>,
            <<"t", "a", "k", "e", "o", "v", "e", "r">>>>]

      KbContractsLegal ==
        [id |-> "contracts-legal",
         title |->
           <<"C", "o", "n", "t", "r", "a", "c", "t", "s", " ", "&", " ", "L", "e",
             "g", "a", "l", " ", "A", "g", "r", "e", "e", "m", "e", "n", "t", "s">>,
         category |-> "Legal",
         content |->
           <<"A", "l", "l", " ", "p", "r", "o", "j", "e", "c", "t", "s", " ", "a",
             "r", "e", " ", "g", "o", "v", "e", "r", "n", "e", "d", " ", "b", "y",
             " ", "a", " ", "s", "e", "r", "v", "i", "c", "e", " ", "a", "g", "r",
             "e", "e", "m", "e", "n", "t", " ", "t", "h", "a", "t", " ", "d", "e",
             "f", "i", "n", "e", "s", " ", "s", "c", "o", "p", "e", ",", " ", "t",
             "i", "m", "e", "l", "i", "n", "e", "s", ",", " ", "p", "r", "i", "c",
             "i", "n", "g", ",", " ", "a", "n", "d", " ", "r", "e", "s", "p", "o",
             "n", "s", "i", "b", "i", "l", "i", "t", "i", "e", "s", ".", "\n", "\n",
             "C", "h", "a", "n", "g", "e", "s", " ", "o", "u", "t", "s", "i", "d",
             "e", " ", "t", "h", "e", " ", "o", "r", "i", "g", "i", "n", "a", "l",
             " ", "s", "c", "o", "p", "e", " ", "m", "a", "y", " ", "r", "e", "q",
             "u", "i", "r", "e", " ", "a", " ", "r", "e", "v", "i", "s", "e", "d",
             " ", "a", "g", "r", "e", "e", "m", "e", "n", "t", " ", "o", "r", " ",
             "a", "d", "d", "i", "t", "i", "o", "n", "a", "l", " ", "c", "h", "a",
             "r", "g", "e", "s", ".">>,
         keywords |-> <<
            <<"c", "o", "n", "t", "r", "a", "c", "t">>,
            <<"l", "e", "g", "a", "l">>,
            <<"a", "g", "r", "e", "e", "m", "e", "n", "t">>,
            <<"s", "c", "o", "p", "e">>,
            <<"t", "i", "m", "e", "l", "i", "n", "e">>,
            <<"t", "e", "r", "m", "s">>,
            <<"c", "o", "n", "d", "i", "t", "i", "o", "n", "s">>,
            <<"r", "e", "s", "p", "o", "n", "s", "i", "b", "i", "l", "i", "t", "i",
              "e", "s">>,
            <<"c", "h", "a", "n", "g", "e", "s">>,
            <<"r", "e", "v", "i", "s", "i", "o", "n">>,
            <<"d", "o", "c", "u", "m", "e", "n", "t">>,
            <<"s", "i", "g", "n">>,
            <<"n", "d", "a">>>>]

      KbRefundsCancellations ==
        [id |-> "refunds-cancellations",
         title |->
           <<"R", "e", "f", "u", "n", "d", "s", " ", "&", " ", "C", "a", "n", "c",
             "e", "l", "l", "a", "t", "i", "o", "n", "s", " ", "P", "o", "l", "i",
             "c", "y">>,
         category |-> "Legal",
         content |->
           <<"R", "e", "f", "u", "n", "d", "s", " ", "d", "e", "p", "e", "n", "d",
             " ", "o", "n", " ", "t", "h", "e", " ", "p", "r", "o", "j", "e", "c",
             "t", " ", "s", "t", "a", "g", "e", ":", "\n", "-", " ", "W", "o", "r",
             "k", " ", "a", "l", "r", "e", "a", "d", "y", " ", "c", "o", "m", "p",
             "l", "e", "t", "e", "d", " ", "i", "s", " ", "n", "o", "n", "-", "r",
             "e", "f", "u", "n", "d", "a", "b", "l", "e", "\n", "-", " ", "R", "e",
             "m", "a", "i", "n", "i", "n", "g", " ", "u", "n", "u", "s", "e", "d",
             " ", "h", "o", "u", "r", "s", " ", "o", "r", " ", "p", "h", "a", "s",
             "e", "s", " ", "m", "a", "y", " ", "b", "e", " ", "r", "e", "f", "u",
             "n", "d", "a", "b", "l", "e", "\n", "-", " ", "C", "a", "n", "c", "e",
             "l", "l", "a", "t", "i", "o", "n", "s", " ", "m", "u", "s", "t", " ",
             "b", "e", " ", "s", "u", "b", "m", "i", "t", "t", "e", "d", " ", "i",
             "n", " ", "w", "r", "i", "t", "i", "n", "g", "\n", "\n", "E", "a",
             "c", "h", " ", "c", "a", "s", "e", " ", "i", "s", " ", "r", "e", "v",
             "i", "e", "w", "e", "d", " ", "i", "n", "d", "i", "v", "i", "d", "u",
             "a", "l", "l", "y", ".">>,
         keywords |-> <<
            <<"r", "e", "f", "u", "n", "d">>,
            <<"r", "e", "f", "u", "n", "d", "s">>,
            <<"c", "a", "n", "c", "e", "l">>,
            <<"c", "a", "n", "c", "e", "l", "l", "a", "t", "i", "o", "n">>,
            <<"m", "o", "n", "e", "y">>,
            <<"b", "a", "c", "k">>,
            <<"r", "e", "t", "u", "r", "n">>,
            <<"p", "o", "l", "i", "c", "y">>,
            <<"c", "o", "m", "p", "l", "e", "t", "e", "d">>,
            <<"u", "n", "u", "s", "e", "d">>,
            <<"w", "r", "i", "t", "i", "n", "g">>,
            <<"s", "t", "o", "p">>>>]

      KbContactInfo ==
        [id |-> "contact-info",
         title |->
           <<"C", "o", "n", "t", "a", "c", "t", " ", "I", "n", "f", "o", "r", "m",
             "a", "t", "i", "o", "n">>,
         category |-> "Contact",
         content |->
           <<"C", "l", "i", "e", "n", "t", "s", " ", "c", "a", "n", " ", "c", "o",
             "n", "t", "a", "c", "t", " ">>
           \o
           COMPANY_NAME
           \o
           <<" ", "v", "i", "a", ":", "\n", "-", " ", "E", "m", "a", "i", "l", " ",
             "s", "u", "p", "p", "o", "r", "t", "\n", "-", " ", "C", "o", "n", "t",
             "a", "c", "t", " ", "f", "o", "r", "m", "s", " ", "o", "n", " ", "t",
             "h", "e", " ", "w", "e", "b", "s", "i", "t", "e", "\n", "-", " ", "S",
             "c", "h", "e", "d", "u", "l", "e", "d", " ", "v", "i", "d", "e", "o",
             " ", "c", "a", "l", "l", "s", "\n", "\n", "R", "e", "s", "p", "o",
             "n", "s", "e", " ", "t", "i", "m", "e", " ", "i", "s", " ", "t", "y",
             "p", "i", "c", "a", "l", "l", "y", " ", "w", "i", "t", "h", "i", "n",
             " ", "2", "4", " ", "b", "u", "s", "i", "n", "e", "s", "s", " ", "h",
             "o", "u", "r", "s", ".">>,
         keywords |-> <<
            <<"c", "o", "n", "t", "a", "c", "t">>,
            <<"e", "m", "a", "i", "l">>,
            <<"p", "h", "o", "n", "e">>,
            <<"c", "a", "l", "l">>,
            <<"r", "e", "a", "c", "h">>,
            <<"m", "e", "s", "s", "a", "g", "e">>,
            <<"f", "o", "r", "m">>,
            <<"v", "i", "d", "e", "o">>,
            <<"m", "e", "e", "t", "i", "n", "g">>,
            <<"r", "e", "s", "p", "o", "n", "s", "e">>,
            <<"t", "i", "m", "e">>,
            <<"h", "o", "w">>,
            <<"g", "e", "t">>,
            <<"t", "o", "u", "c", "h">>,
            <<"t", "a", "l", "k">>,
            <<"s", "p", "e", "a", "k">>>>]

      KbLanguageSupport ==
        [id |-> "language-support",
         title |->
           <<"M", "u", "l", "t", "i", "-", "L", "a", "n", "g", "u", "a", "g", "e",
             " ", "S", "u", "p", "p", "o", "r", "t">>,
         category |-> "Support",
         content |->
           COMPANY_NAME
           \o
           <<" ", "s", "u", "p", "p", "o", "r", "t", "s", " ", "c", "l", "i", "e",
             "n", "t", "s", " ", "i", "n", ":", "\n", "-", " ", "E", "n", "g", "l",
             "i", "s", "h", "\n", "-", " ", "F", "r", "e", "n", "c", "h", "\n",
             "\n", "D", "o", "c", "u", "m", "e", "n", "t", "a", "t", "i", "o", "n",
             " ", "a", "n", "d", " ", "c", "o", "m", "m", "u", "n", "i", "c", "a",
             "t", "i", "o", "n", " ", "c", "a", "n", " ", "b", "e", " ", "p", "r",
             "o", "v", "i", "d", "e", "d", " ", "i", "n", " ", "e", "i", "t", "h",
             "e", "r", " ", "l", "a", "n", "g", "u", "a", "g", "e", ".">>,
         keywords |-> <<
            <<"l", "a", "n", "g", "u", "a", "g", "e">>,
            <<"e", "n", "g", "l", "i", "s", "h">>,
            <<"f", "r", "e", "n", "c", "h">>,
            <<"m", "u", "l", "t", "i", "l", "i", "n", "g", "u", "a", "l">>,
            <<"t", "r", "a", "n", "s", "l", "a", "t", "i", "o", "n">>,
            <<"c", "o", "m", "m", "u", "n", "i", "c", "a", "t", "i", "o", "n">>,
            <<"d", "o", "c", "u", "m", "e", "n", "t", "a", "t", "i", "o", "n">>,
            <<"s", "p", "e", "a", "k">>,
            <<"p", "a", "r", "l", "e", "r">>,
            <<"f", "r", "a", "n", "Ã", "§", "a", "i", "s">>,
            <<"l", "a", "n", "g", "u", "a", "g", "e", "s">>>>]
  IN <<KbServicesOverview,
      KbSupportHours,
      KbPricingBilling,
      KbProjectProcess,
      KbTechnicalSupport,
      KbAiChatbotServices,
      KbDataPrivacySecurity,
      KbAccountAccess,
      KbFaqRedesign,
      KbFaqApiIntegration,
      KbFaqMobileApp,
      KbFaqExistingMaintenance,
      KbContractsLegal,
      KbRefundsCancellations,
      KbContactInfo,
      KbLanguageSupport>>

(***************************************************************************)
(* ChatWidget (src/components/ChatWidget.tsx): pure parts                  *)
(***************************************************************************)
\* const companyName = getCompanyName()
WidgetCompany == COMPANY_NAME

\* the content of the first message, for the company name of the widget
GreetingFor(companyName) ==
  <<"H", "i", "!", " ", "I", "'", "m", " ", "h", "e", "r", "e", " ", "t", "o", " ", "h", "e", "l", "p", " ", "w", "i", "t", "h", " ", "a", "n", "y", " ", "q", "u", "e", "s", "t", "i", "o", "n", "s", " ", "a", "b", "o", "u", "t", " ">>
    \o companyName \o
  <<".", " ", "H", "o", "w", " ", "c", "a", "n", " ", "I", " ", "a", "s", "s", "i", "s", "t", " ", "y", "o", "u", " ", "t", "o", "d", "a", "y", "?">>

MsgNoReply ==
  <<"I", "'", "m", " ", "s", "o", "r", "r", "y", ",", " ", "I", " ", "c", "o", "u", "l", "d", "n", "'", "t", " ", "p", "r", "o", "c", "e", "s", "s", " ", "t", "h", "a", "t", " ", "r", "e", "q", "u", "e", "s", "t", ".">>

MsgConnecting ==
  <<"I", "'", "m", " ", "s", "o", "r", "r", "y", ",", " ", "I", "'", "m", " ", "h", "a", "v", "i", "n", "g", " ", "t", "r", "o", "u", "b", "l", "e", " ", "c", "o", "n", "n", "e", "c", "t", "i", "n", "g", ".", " ", "P", "l", "e", "a", "s", "e", " ", "t", "r", "y", " ", "a", "g", "a", "i", "n", ".">>

\* what the user leaves in the input field
InputValues == { <<>>, <<" ">>, <<"p", "a", "y">>, <<" ", "a", "p", "i", " ">> }

\* how supabase.functions.invoke settles: data with a reply, data with an
\* empty reply, data without a reply, an error, or neither data nor error
Settlements ==
  { [kind |-> "data", reply |-> JStr(<<"Y", "e", "s", ".">>)],
    [kind |-> "data", reply |-> JStr(<<>>)],
    [kind |-> "data", reply |-> Undefined],
    [kind |-> "error"],
    [kind |-> "null"] }

\* the values a render hands to the handlers it creates
View(messages, input, isLoading) ==
  [mounted |-> TRUE, messages |-> messages, input |-> input,
   isLoading |-> isLoading]

\* the guard of sendMessage without its isLoading test
rejectsSend_BlankOnly(input, isLoading) == Trim(input) = <<>>

\* !input.trim() || isLoading
rejectsSend(input, isLoading) == Trim(input) = <<>> \/ isLoading

\* the body of the chat request sendMessage issues for userMessage, messages
\* being the messages of the render that created the handler
chatRequest(userMessage, messages) ==
  [message |-> userMessage.content,
   conversationHistory |->
     [i \in 1..Len(SliceLast(messages, MAX_HISTORY)) |->
        [role |-> SliceLast(messages, MAX_HISTORY)[i].role,
         content |-> SliceLast(messages, MAX_HISTORY)[i].content]],
   knowledgeContext |-> retrieveContext(userMessage.content, knowledgeBase).context,
   companyName |-> WidgetCompany]

\* the assistant message sendMessage appends when the request has settled
assistantMessage(settlement) ==
  [role |-> "assistant",
   content |-> IF settlement.kind = "data"
                 THEN IF Truthy(settlement.reply) THEN settlement.reply.v
                      ELSE MsgNoReply
                 ELSE MsgConnecting]

(***************************************************************************)
(* Retrieval engine and createConversation called on enumerated inputs     *)
(***************************************************************************)
MaxQueryLen == 4

MaxCorpus == 3

MaxTopK == 4

MaxTerms == 3

\* chunks in the shape of KnowledgeChunk: three entries of the knowledge base
\* with their text abridged, and an entry whose title and content are empty
SupportHours ==
  [id |-> "support-hours",
   title |-> <<"C", "u", "s", "t", "o", "m", "e", "r", " ", "S", "u", "p", "p", "o", "r", "t", " ", "H", "o", "u", "r", "s">>,
   category |-> "Support",
   content |->
     <<"M", "o", "n", "d", "a", "y", " ", "t", "o", " ", "F", "r", "i", "d", "a", "y">>,
   keywords |-> <<<<"s", "u", "p", "p", "o", "r", "t">>,
                 <<"h", "o", "u", "r", "s">>,
                 <<"h", "e", "l", "p">>>>]

PricingBilling ==
  [id |-> "pricing-billing",
   title |-> <<"P", "r", "i", "c", "i", "n", "g", " ", "&", " ", "B", "i", "l", "l", "i", "n", "g">>,
   category |-> "Pricing",
   content |->
     <<"F", "i", "x", "e", "d", "-", "p", "r", "i", "c", "e", " ", "p", "r", "o", "j", "e", "c", "t", "s">>,
   keywords |-> <<<<"p", "r", "i", "c", "i", "n", "g">>,
                 <<"p", "r", "i", "c", "e">>,
                 <<"c", "o", "s", "t">>,
                 <<"p", "a", "y">>>>]

FaqApiIntegration ==
  [id |-> "faq-api-integration",
   title |-> <<"F", "A", "Q", ":", " ", "T", "h", "i", "r", "d", "-", "P", "a", "r", "t", "y", " ", "A", "P", "I", " ", "I", "n", "t", "e", "g", "r", "a", "t", "i", "o", "n">>,
   category |-> "FAQ",
   content |->
     <<"W", "e", " ", "i", "n", "t", "e", "g", "r", "a", "t", "e", " ", "p", "a", "y", "m", "e", "n", "t", " ", "g", "a", "t", "e", "w", "a", "y", "s", " ", "a", "n", "d", " ", "A", "P", "I", "s">>,
   keywords |-> <<<<"a", "p", "i">>,
                 <<"i", "n", "t", "e", "g", "r", "a", "t", "i", "o", "n">>,
                 <<"p", "a", "y", "m", "e", "n", "t">>>>]

EmptyNote ==
  [id |-> "empty-note",
   title |-> <<>>,
   category |-> "FAQ",
   content |->
     <<>>,
   keywords |-> <<<<"n", "o", "t", "e">>>>]

RefundsCancellations ==
  [id |-> "refunds-cancellations",
   title |-> <<"R", "e", "f", "u", "n", "d", "s", " ", "&", " ", "C", "a", "n", "c", "e", "l", "l", "a", "t", "i", "o", "n", "s", " ", "P", "o", "l", "i", "c", "y">>,
   category |-> "Legal",
   content |->
     <<"R", "e", "f", "u", "n", "d", "s", " ", "d", "e", "p", "e", "n", "d", " ", "o", "n", " ", "t", "h", "e", " ", "p", "r", "o", "j", "e", "c", "t", " ", "s", "t", "a", "g", "e">>,
   keywords |-> <<<<"r", "e", "f", "u", "n", "d">>,
                 <<"c", "a", "n", "c", "e", "l">>,
                 <<"m", "o", "n", "e", "y">>>>]

ContactInfo ==
  [id |-> "contact-info",
   title |-> <<"C", "o", "n", "t", "a", "c", "t", " ", "I", "n", "f", "o", "r", "m", "a", "t", "i", "o", "n">>,
   category |-> "Contact",
   content |->
     <<"E", "m", "a", "i", "l", " ", "s", "u", "p", "p", "o", "r", "t">>,
   keywords |-> <<<<"c", "o", "n", "t", "a", "c", "t">>,
                 <<"e", "m", "a", "i", "l">>,
                 <<"r", "e", "a", "c", "h">>>>]

SampleChunks == {SupportHours, PricingBilling, FaqApiIntegration, EmptyNote}

FullCorpus == <<SupportHours, PricingBilling, FaqApiIntegration, EmptyNote>>

\* sequences over S of length at most n in which no element repeats
DistinctSeqs(S, n) ==
  { s \in SeqsUpTo(S, n) : \A i, j \in 1..Len(s) : s[i] = s[j] => i = j }

\* a corpus with more chunks than getRelevantContext asks for
LargeCorpus == FullCorpus \o <<RefundsCancellations, ContactInfo>>

\* corpora: the sample chunks in every order, and the large corpus
Corpora == DistinctSeqs(SampleChunks, MaxCorpus) \cup {LargeCorpus}

QueryChars == {"a", "n", "d", "A", " ", "_", "?"}

\* every query over QueryChars up to the length bound
EnumQueries == SeqsUpTo(QueryChars, MaxQueryLen)

SampleQueries ==
  { <<>>,
    <<" ">>,
    <<"t", "h", "e">>,
    <<"W", "h", "a", "t", " ", "i", "s", " ", "i", "t", "?">>,
    <<"t", "o", " ", "b", "e", " ", "o", "r", " ", "n", "o", "t", " ", "t", "o">>,
    <<"T", "H", "E", " ", "a", "n", "d">>,
    <<"?", "!">>,
    <<"x", "y", "z", "a", "b", "c">>,
    <<"p", "r", "i", "c", "e">>,
    <<"h", "e", "l", "p">>,
    <<"W", "h", "a", "t", " ", "i", "s", " ", "t", "h", "e", " ", "p", "r", "i", "c", "e", "?">>,
    <<"p", "r", "i", "c", "e", " ", "h", "e", "l", "p">>,
    <<"h", "e", "l", "p", " ", "p", "r", "i", "c", "e">>,
    <<"p", "a", "y", " ", "a", "p", "i">>,
    <<"P", "r", "i", "c", "i", "n", "g">>,
    <<"p", "r", "i">>,
    <<"s", "u", "p", "p", "o", "r", "t">>,
    <<"n", "o", "t", "e", "s">>,
    <<"p", "r", "i", "c", "e", " ", "p", "r", "i", "c", "e", " ", "c", "o", "s", "t">>,
    <<"a", "p", "i", "_", "k", "e", "y">>,
    <<"p", "a", "y", " ", "s", "u", "p", "p", "o", "r", "t", " ", "a", "p", "i", " ", "n", "o", "t", "e", "s">>,
    <<"p", "a", "y", " ", "s", "u", "p", "p", "o", "r", "t", " ", "a", "p", "i", " ", "n", "o", "t", "e", "s", " ", "r", "e", "f", "u", "n", "d">>,
    <<"c", "o", "s", "t", "\t", "o", "f", "\n", "h", "e", "l", "p">> }

Xyzabc == <<"x", "y", "z", "a", "b", "c">>

Terms ==
  { <<"p", "r", "i", "c", "e">>,
    <<"p", "a", "y">>,
    <<"a", "p", "i">>,
    <<"s", "u", "p", "p", "o", "r", "t">>,
    <<"p", "r", "i">>,
    <<"n", "o", "t", "e", "s">> }

\* keyword lists as extractKeywords returns them: without repetition
TermLists == DistinctSeqs(Terms, MaxTerms)

\* minimum scores in half points: -1, 0, the default 2, and 4.5
MinScores == {-2, 0, 4, 9}

Companies2 == {"Acme", DEFAULT_COMPANY}

\* a knowledge context as retrieval formats it
FormattedContext ==
  formatContextForPrompt(<<[chunk |-> PricingBilling, score |-> 9,
                            matchedKeywords |-> <<<<"p", "r", "i", "c", "e">>>>]>>)

ConversationContexts == Contexts \cup {FormattedContext, <<"\n">>, <<"\t", "k">>}

\* the inputs of one call of an operation of the engine
EngineInput ==
  \/ \E q \in EnumQueries \cup SampleQueries :
       rtIn = [op |-> "extractKeywords", query |-> q]
  \/ \E c \in SampleChunks, k \in TermLists :
       rtIn = [op |-> "scoreChunk", chunk |-> c, queryKeywords |-> k]
  \/ \E q \in SampleQueries, c \in Corpora, t \in 0..MaxTopK, m \in MinScores :
       rtIn = [op |-> "retrieveRelevantChunks", query |-> q, chunks |-> c,
               topK |-> t, minScore |-> m]
  \/ \E q \in EnumQueries, m \in {0, 4} :
       rtIn = [op |-> "retrieveRelevantChunks", query |-> q,
               chunks |-> FullCorpus, topK |-> 3, minScore |-> m]
  \/ \E c \in Corpora, k \in {<<>>, <<<<"p", "a", "y">>>>} :
       rtIn = [op |-> "formatContextForPrompt",
               results |-> [i \in 1..Len(c) |-> scoreChunk(c[i], k)]]
  \/ \E q \in SampleQueries, c \in Corpora \cup {knowledgeBase} :
       rtIn = [op |-> "retrieveContext", query |-> q, chunks |-> c]
  \/ \E n \in Companies2, u \in UserMessages, k \in ConversationContexts,
        h \in SeqsUpTo(HistoryMessages, 1) :
       rtIn = [op |-> "createConversation", companyName |-> n,
               userMessage |-> u, knowledgeContext |-> k,
               conversationHistory |-> h]

\* no request is being served
HandlerIdle ==
  /\ env = [OPENROUTER_API_KEY |-> Undefined, OPENROUTER_API_URL |-> Undefined,
            OPENROUTER_MODEL |-> Undefined]
  /\ pc = "idle"
  /\ req = NoRequest
  /\ aiService = NoService
  /\ conv = NoConv
  /\ inflight = NoPayload
  /\ fetchCount = 0
  /\ completeCalls = 0
  /\ now = 0
  /\ timerArmed = FALSE
  /\ aborted = FALSE
  /\ upstream = NoUpstream
  /\ errorText = Undefined
  /\ thrown = NoError
  /\ completion = NoCompletion
  /\ response = NoResponse
  /\ prev = NoPrev
  /\ cvIn = [called |-> FALSE]
  /\ cvOut = NoConv

InitRetr ==
  /\ HandlerIdle
  /\ WidgetIdle
  /\ EngineInput
  /\ rtOut = [op |-> "none"]

\* the operation rtIn names has not been called yet
Pending(op) == rtIn.op = op /\ rtOut.op = "none"

CallExtractKeywords ==
  /\ Pending("extractKeywords")
  /\ rtOut' = [op |-> "extractKeywords", result |-> extractKeywords(rtIn.query)]
  /\ UNCHANGED <<handlerVars, convVars, widgetVars, rtIn>>

CallScoreChunk ==
  /\ Pending("scoreChunk")
  /\ rtOut' = [op |-> "scoreChunk",
               result |-> scoreChunk(rtIn.chunk, rtIn.queryKeywords)]
  /\ UNCHANGED <<handlerVars, convVars, widgetVars, rtIn>>

CallRetrieveRelevantChunks ==
  /\ Pending("retrieveRelevantChunks")
  /\ LET run == retrieveRun(rtIn.query, rtIn.chunks, rtIn.topK, rtIn.minScore)
     IN rtOut' = [op |-> "retrieveRelevantChunks", result |-> run.results,
                  scored |-> run.scored]
  /\ UNCHANGED <<handlerVars, convVars, widgetVars, rtIn>>

CallFormatContextForPrompt ==
  /\ Pending("formatContextForPrompt")
  /\ rtOut' = [op |-> "formatContextForPrompt",
               result |-> formatContextForPrompt(rtIn.results)]
  /\ UNCHANGED <<handlerVars, convVars, widgetVars, rtIn>>

CallRetrieveContext ==
  /\ Pending("retrieveContext")
  /\ rtOut' = [op |-> "retrieveContext",
               result |-> retrieveContext(rtIn.query, rtIn.chunks)]
  /\ UNCHANGED <<handlerVars, convVars, widgetVars, rtIn>>

CallConversation ==
  /\ Pending("createConversation")
  /\ rtOut' = [op |-> "createConversation",
               result |-> createConversation(rtIn.companyName, rtIn.userMessage,
                                             rtIn.knowledgeContext,
                                             rtIn.conversationHistory)]
  /\ UNCHANGED <<handlerVars, convVars, widgetVars, rtIn>>

NextRetr ==
  \/ CallExtractKeywords
  \/ CallScoreChunk
  \/ CallRetrieveRelevantChunks
  \/ CallFormatContextForPrompt
  \/ CallRetrieveContext
  \/ CallConversation

SpecRetr == InitRetr /\ [][NextRetr]_vars

(***************************************************************************)
(* ChatWidget (src/components/ChatWidget.tsx)                              *)
(*                                                                         *)
(* The handlers of the widget are closures of the render that created      *)
(* them: they read input, isLoading and messages as that render saw them   *)
(* (wView), while set...() calls change the state.  React renders again    *)
(* before it returns from an event handler, and some time after a state    *)
(* change made when an awaited promise settles.  The handlers are called   *)
(* whenever an event reaches them: the disabled attributes of the rendered *)
(* controls are not relied upon.  Message ids are left out.                *)
(***************************************************************************)
MaxSends == 3

\* the widget after its first render
InitWidget ==
  /\ HandlerIdle
  /\ RetrIdle
  /\ wMessages = <<[role |-> "assistant", content |-> GreetingFor(WidgetCompany)]>>
  /\ wInput = <<>>
  /\ wIsLoading = FALSE
  /\ wView = View(wMessages, wInput, wIsLoading)
  /\ wPending = <<>>
  /\ wIssued = 0

\* onChange of the input field: setInput(e.target.value)
Type(text) ==
  /\ wView.mounted
  /\ wInput' = text
  /\ wView' = View(wMessages, text, wIsLoading)
  /\ UNCHANGED <<wMessages, wIsLoading, wPending, wIssued>>
  /\ UNCHANGED <<handlerVars, convVars, retrVars>>

\* sendMessage() up to its await, called by Enter or by the send button, and
\* the render that follows the event
Send ==
  /\ wView.mounted
  /\ wIssued < MaxSends
  /\ IF rejectsSend(wView.input, wView.isLoading)
       THEN UNCHANGED widgetVars
       ELSE LET userMessage == [role |-> "user", content |-> Trim(wView.input)]
            IN /\ wMessages' = Append(wMessages, userMessage)
               /\ wInput' = <<>>
               /\ wIsLoading' = TRUE
               /\ wPending' = Append(wPending, chatRequest(userMessage, wView.messages))
               /\ wIssued' = wIssued + 1
               /\ wView' = View(wMessages', wInput', wIsLoading')
  /\ UNCHANGED <<handlerVars, convVars, retrVars>>

\* a pending chat request settles and sendMessage runs to its end
Settle(i, settlement) ==
  /\ i \in 1..Len(wPending)
  /\ wPending' = SubSeq(wPending, 1, i - 1) \o SubSeq(wPending, i + 1, Len(wPending))
  /\ wMessages' = Append(wMessages, assistantMessage(settlement))
  /\ wIsLoading' = FALSE
  /\ UNCHANGED <<wInput, wView, wIssued>>
  /\ UNCHANGED <<handlerVars, convVars, retrVars>>

\* React renders the state a settled request left
Render ==
  /\ wView.mounted
  /\ wView # View(wMessages, wInput, wIsLoading)
  /\ wView' = View(wMessages, wInput, wIsLoading)
  /\ UNCHANGED <<wMessages, wInput, wIsLoading, wPending, wIssued>>
  /\ UNCHANGED <<handlerVars, convVars, retrVars>>

NextWidget ==
  \/ Render
  \/ Send
  \/ \E i \in 1..MaxSends, settlement \in Settlements : Settle(i, settlement)
  \/ \E text \in InputValues : Type(text)

SpecWidget == InitWidget /\ [][NextWidget]_vars

(***************************************************************************)
(* Properties                                                              *)
(***************************************************************************)
ErrorResponse(status, message) == [status |-> status, body |-> [error |-> message]]

TimeoutError == AIServiceError("Request timeout", 504, MsgTimeout)

\* the provider answered the request being served with a non-2xx status
UpstreamFailed == upstream.status # 0 /\ ~(upstream.status \in 200..299)

\* the provider answered the request being served with a 2xx status
UpstreamOk == upstream.status \in 200..299

\* C1: when the timeout budget expires with no response from the provider,
\* the request is aborted, complete() fails with the typed 504 error whose
\* user message says the service took too long, the handler answers with
\* that message and status 504, and the call issued exactly one provider
\* request.
C1_TimeoutYields504 ==
  /\ (pc = "fetching" /\ now >= TIMEOUT_MS) => (timerArmed \/ aborted)
  /\ aborted => (fetchCount = 1 /\ completeCalls = 1 /\ upstream = NoUpstream)
  /\ (aborted /\ pc = "done") =>
       /\ completion = [kind |-> "error", error |-> TimeoutError]
       /\ response = ErrorResponse(504, MsgTimeout)

\* C1 witness: a call timed out and the handler has answered 504.
C1_Witness ==
  aborted /\ pc = "done" /\ now = TIMEOUT_MS /\ response.status = 504

\* C2: complete() is never still running later than the timeout budget
\* after it started, whatever the provider does.
C2_EndsWithinBudget == (pc \in Awaiting) => (now <= TIMEOUT_MS)

\* The typed error the claim C3 assigns to a non-2xx status: status code and
\* user message.
C3_Expected(status) ==
  CASE status = 429 -> <<429, MsgBusy>>
    [] status = 401 -> <<500, MsgAuth>>
    [] status = 403 -> <<500, MsgAuth>>
    [] status = 400 -> <<400, MsgBadRequest>>
    [] OTHER -> <<500, MsgUpstream>>

C3_Mapped ==
  /\ completion.kind = "error"
  /\ completion.error.name = "AIServiceError"
  /\ <<completion.error.statusCode, completion.error.userMessage>>
       = C3_Expected(upstream.status)

\* C3 as stated: for every non-2xx provider status the call fails with the
\* typed error of that status (429 -> 429, 401/403 -> 500, 400 -> 400,
\* other -> 500, each with its own user message), never with a reply.
C3_EveryFailedStatusMapped ==
  /\ UpstreamFailed => completion.kind # "reply"
  /\ (pc = "done" /\ UpstreamFailed) => C3_Mapped

\* C3 amended: for every non-2xx provider status whose error body was read
\* to completion the call fails with the typed error of that status; when
\* reading the error body fails the call fails with the generic typed error
\* (500, unexpected error); no non-2xx status yields a reply.
C3_StatusMapping ==
  /\ UpstreamFailed => completion.kind # "reply"
  /\ (pc = "done" /\ UpstreamFailed /\ upstream.bodyState = "arrived") => C3_Mapped
  /\ (pc = "done" /\ UpstreamFailed /\ upstream.bodyState = "failed") =>
       /\ completion.kind = "error"
       /\ completion.error.name = "AIServiceError"
       /\ completion.error.statusCode = 500
       /\ completion.error.userMessage = MsgUnexpected

\* C3 witness: the provider answered 403, its body was read, and the call
\* has ended.
C3_Witness ==
  pc = "done" /\ upstream.status = 403 /\ upstream.bodyState = "arrived"

\* C4: the upstream error body never reaches the caller: two provider error
\* responses with the same status, read the same way, get the same status
\* code and message from the handler whatever their bodies are; the body
\* text is not the returned message; a 429 gets status 429 and the generic
\* busy message.
C4_BodyNotLeaked ==
  /\ (pc = "done" /\ UpstreamFailed /\ prev.status = upstream.status
        /\ prev.bodyState = upstream.bodyState)
       => response = prev.response
  /\ (pc = "done" /\ UpstreamFailed /\ upstream.bodyState = "arrived")
       => response.body.error # upstream.body.v
  /\ (pc = "done" /\ upstream.status = 429 /\ upstream.bodyState = "arrived")
       => response = ErrorResponse(429, MsgBusy)

\* C4 witness: two 429 responses with different bodies have been answered.
C4_Witness ==
  /\ pc = "done"
  /\ upstream.status = 429 /\ prev.status = 429
  /\ upstream.bodyState = "arrived" /\ prev.bodyState = "arrived"
  /\ upstream.body # prev.body

\* the fixed user-facing messages of the error taxonomy
FixedUserMessages ==
  {MsgRequired, MsgTimeout, MsgUnexpected, MsgBusy, MsgAuth, MsgBadRequest,
   MsgUpstream, MsgNotConfigured}

\* C5: every error response of the handler carries one of the fixed
\* user-facing messages, and never the message of the exception that caused
\* it.
C5_NoInternalText ==
  (pc = "done" /\ response.status # 200) =>
    /\ response.body.error \in FixedUserMessages
    /\ thrown # NoError => response.body.error # thrown.message

\* C6: whenever complete() fails, what leaves it is an AIServiceError whose
\* status code is 400, 429, 500 or 504 and whose user message is one of the
\* fixed messages, distinct from its internal message; a call of complete()
\* that has ended has ended with a reply or with such an error.
C6_OnlyTypedErrors ==
  /\ completion.kind = "error" =>
       /\ completion.error.name = "AIServiceError"
       /\ completion.error.statusCode \in {400, 429, 500, 504}
       /\ completion.error.userMessage \in FixedUserMessages
       /\ completion.error.userMessage # completion.error.message
       /\ thrown = completion.error
  /\ (pc = "done" /\ completeCalls = 1) => completion.kind \in {"reply", "error"}

\* C6 witness: complete() failed while parsing a success body that is not
\* JSON.
C6_Witness ==
  /\ completion.kind = "error"
  /\ upstream.status = 200 /\ upstream.bodyState = "arrived"
  /\ upstream.body = Unparseable

\* the content of the first choice of a success body, where there is one
C7_FirstContent(body) ==
  IF body.t = "obj" /\ "choices" \in DOMAIN body.f
       /\ body.f.choices.t = "arr" /\ Len(body.f.choices.v) > 0
       /\ body.f.choices.v[1].t = "obj"
       /\ "message" \in DOMAIN body.f.choices.v[1].f
       /\ body.f.choices.v[1].f.message.t = "obj"
       /\ "content" \in DOMAIN body.f.choices.v[1].f.message.f
    THEN body.f.choices.v[1].f.message.f.content
    ELSE Undefined

\* the model AIService.create configures
C7_ConfiguredModel ==
  IF env.OPENROUTER_MODEL.t = "str" /\ env.OPENROUTER_MODEL.v # ""
    THEN env.OPENROUTER_MODEL.v
    ELSE "mistralai/mistral-7b-instruct:free"

\* C7: when the provider answers with a success status and the body has
\* arrived, complete() returns a reply: the content of the first choice, or
\* the fallback sentence when that content is absent or empty or the body is
\* empty or malformed, together with the configured model.
C7_SuccessNeverFails ==
  (pc = "done" /\ UpstreamOk /\ upstream.bodyState = "arrived") =>
    LET content == C7_FirstContent(upstream.body)
        present == content.t = "str" /\ content.v # ""
    IN /\ completion.kind = "reply"
       /\ completion.model = C7_ConfiguredModel
       /\ completion.reply = IF present THEN content ELSE JStr(MsgFallback)

\* the request being served is a POST whose body is a JSON object
ObjectRequest == req.method = "POST" /\ req.body.t = "obj"

\* the handler is past req.json()
Parsed == pc \notin {"idle", "parsing"}

\* the credential is absent from the environment (or empty)
NoCredential ==
  \/ env.OPENROUTER_API_KEY.t = "undef"
  \/ env.OPENROUTER_API_KEY = JStr("")

\* the message the handler finds in the body: none in a body that is not JSON
\* or not an object
RequestMessage == IF req.body.t = "obj" THEN req.body.message ELSE Undefined

\* C8: a request whose message is missing or not a string is answered 400
\* with the error message, and nothing else has happened: no client, no
\* conversation, no call of complete(), no provider request, with or
\* without the credential.
C8_InvalidMessage400 ==
  (req.method = "POST" /\ Parsed /\ RequestMessage.t # "str") =>
    /\ pc = "done"
    /\ response = ErrorResponse(400, MsgRequired)
    /\ aiService = NoService
    /\ conv = NoConv
    /\ completeCalls = 0
    /\ fetchCount = 0
    /\ inflight = NoPayload

\* C9: without the credential a request with a valid message is answered
\* 500 with the configuration message and no provider request is issued;
\* the same process answers an invalid message with 400.
C9_MissingCredential500 ==
  /\ (NoCredential /\ ObjectRequest /\ Parsed /\ req.body.message.t = "str"
        /\ req.body.message.v # "") =>
       /\ pc = "done"
       /\ response = ErrorResponse(500, MsgNotConfigured)
       /\ thrown = AIServiceError("OPENROUTER_API_KEY not configured", 500,
                                  MsgNotConfigured)
       /\ completeCalls = 0
       /\ fetchCount = 0
       /\ inflight = NoPayload
  /\ (NoCredential /\ ObjectRequest /\ Parsed /\ req.body.message.t # "str") =>
       response.status = 400
  /\ (NoCredential /\ pc = "idle") => (thrown = NoError /\ response = NoResponse)

\* C10: the conversation createConversation builds has exactly one system
\* message, at index 0, ends with the user message verbatim, holds between
\* them the last six history entries in order, and has length
\* min(|history|, 6) + 2.
C10_ConversationShape ==
  cvIn.called =>
    LET m == cvOut.messages
        h == cvIn.conversationHistory
        kept == Min(Len(h), 6)
    IN /\ Len(m) = kept + 2
       /\ m[1].role = "system"
       /\ Cardinality({i \in 1..Len(m) : m[i].role = "system"}) = 1
       /\ m[Len(m)] = [role |-> "user", content |-> cvIn.userMessage]
       /\ \A i \in 1..kept : m[i + 1] = h[Len(h) - kept + i]

\* the system prompt of a conversation
SystemPrompt(conversation) == conversation.messages[1].content

RefusalPrompt(companyName) == [template |-> "refusal", companyName |-> companyName]

GroundedPrompt(companyName, context) ==
  [template |-> "grounded", companyName |-> companyName, context |-> context]

\* C11: createConversation sets hasContext exactly when the knowledge context
\* is non-empty after trimming; without context the system prompt is the
\* refusal template, which takes the organization name and nothing else; with
\* context it is the grounded template holding the context verbatim; the
\* question 'xyzabc' retrieves nothing and gets the refusal template.
C11_GroundingGate ==
  /\ rtOut.op = "createConversation" =>
       /\ rtOut.result.hasContext = (Trim(rtIn.knowledgeContext) # <<>>)
       /\ ~rtOut.result.hasContext =>
            SystemPrompt(rtOut.result) = RefusalPrompt(rtIn.companyName)
       /\ rtOut.result.hasContext =>
            SystemPrompt(rtOut.result) =
              GroundedPrompt(rtIn.companyName, rtIn.knowledgeContext)
  /\ (rtOut.op = "retrieveContext" /\ rtIn.query = Xyzabc) =>
       /\ rtOut.result.chunks = <<>>
       /\ ~rtOut.result.hasContext
       /\ \A n \in Companies2 :
            LET conversation == createConversation(n, rtIn.query,
                                                   rtOut.result.context, <<>>)
            IN /\ ~conversation.hasContext
               /\ SystemPrompt(conversation) = RefusalPrompt(n)

\* C11 witness: a context of blanks only was given and the conversation got
\* the refusal template.
C11_Witness ==
  /\ rtOut.op = "createConversation"
  /\ rtIn.knowledgeContext = <<" ", " ">>
  /\ rtIn.companyName = "Acme"
  /\ SystemPrompt(rtOut.result) = RefusalPrompt("Acme")

\* the score, in half points, scoreChunk gives a chunk for a query
ScoreFor(chunk, query) == scoreChunk(chunk, extractKeywords(query)).score

\* C12: retrieveRelevantChunks returns at most topK results, each with a
\* score of at least minScore; the context of getRelevantContext holds at
\* most 4 documents, none with a score below 2.
C12_BoundedAndAboveThreshold ==
  /\ rtOut.op = "retrieveRelevantChunks" =>
       /\ Len(rtOut.result) <= rtIn.topK
       /\ \A i \in 1..Len(rtOut.result) : rtOut.result[i].score >= rtIn.minScore
  /\ rtOut.op = "retrieveContext" =>
       /\ Len(rtOut.result.chunks) <= 4
       /\ \A i \in 1..Len(rtOut.result.chunks) :
             ScoreFor(rtOut.result.chunks[i], rtIn.query) >= 4
       /\ rtOut.result.context =
            formatContextForPrompt([i \in 1..Len(rtOut.result.chunks) |->
                                      [chunk |-> rtOut.result.chunks[i]]])

\* C12 witness: five chunks of the corpus reach the minimum score and the
\* context got four of them.
C12_Witness ==
  /\ rtOut.op = "retrieveContext"
  /\ rtIn.chunks = LargeCorpus
  /\ Cardinality({ i \in 1..Len(rtIn.chunks) :
                     ScoreFor(rtIn.chunks[i], rtIn.query) >= 4 }) = 5
  /\ Len(rtOut.result.chunks) = 4

\* the position in the corpus of the chunk of a result
CorpusIndex(chunks, result) == CHOOSE i \in 1..Len(chunks) : chunks[i] = result.chunk

\* the positions of the corpus whose chunk reaches the minimum score
Qualifying(query, chunks, minScore) ==
  { i \in 1..Len(chunks) : ScoreFor(chunks[i], query) >= minScore }

\* chunk i of the corpus ranks before chunk j: a higher score, or the same
\* score and an earlier position
RanksBefore(query, chunks, i, j) ==
  \/ ScoreFor(chunks[i], query) > ScoreFor(chunks[j], query)
  \/ /\ ScoreFor(chunks[i], query) = ScoreFor(chunks[j], query)
     /\ i < j

\* C13: when the query has keywords, the results of retrieveRelevantChunks
\* are the first topK chunks, by decreasing score and corpus order among equal
\* scores, of the chunks that reach minScore.
C13_TopKOfStableOrder ==
  (rtOut.op = "retrieveRelevantChunks" /\ extractKeywords(rtIn.query) # <<>>) =>
    LET chunks == rtIn.chunks
        results == rtOut.result
        qualifying == Qualifying(rtIn.query, chunks, rtIn.minScore)
        at(k) == CorpusIndex(chunks, results[k])
        returned == { at(k) : k \in 1..Len(results) }
    IN /\ Len(results) = Min(rtIn.topK, Cardinality(qualifying))
       /\ \A k \in 1..Len(results) :
            /\ results[k].chunk \in Range(chunks)
            /\ at(k) \in qualifying
            /\ results[k] = scoreChunk(chunks[at(k)], extractKeywords(rtIn.query))
       /\ \A k, l \in 1..Len(results) :
            k < l => RanksBefore(rtIn.query, chunks, at(k), at(l))
       /\ \A j \in qualifying \ returned :
            \A k \in 1..Len(results) : RanksBefore(rtIn.query, chunks, at(k), j)

\* C13 witness: two results have the same score, a third has another, and
\* topK left a qualifying chunk out.
C13_Witness ==
  /\ rtOut.op = "retrieveRelevantChunks"
  /\ Len(rtOut.result) = 3
  /\ rtOut.result[2].score = rtOut.result[3].score
  /\ rtOut.result[1].score > rtOut.result[2].score
  /\ Cardinality(Qualifying(rtIn.query, rtIn.chunks, rtIn.minScore)) > 3

\* the tokens of a query: its maximal runs of word characters, lowercased
Tokens(query) ==
  { LowerCase(SubSeq(query, i, j)) :
      <<i, j>> \in { p \in (1..Len(query)) \X (1..Len(query)) :
                       /\ p[1] <= p[2]
                       /\ \A k \in p[1]..p[2] : IsWordChar(query[k])
                       /\ p[1] > 1 => ~IsWordChar(query[p[1] - 1])
                       /\ p[2] < Len(query) => ~IsWordChar(query[p[2] + 1]) } }

\* the query consists of stop words and tokens of length <= 2 only
OnlyStopOrShort(query) ==
  \A token \in Tokens(query) : Len(token) <= 2 \/ token \in STOP_WORDS

\* C14: for a query of stop words and tokens of length <= 2 only,
\* extractKeywords returns nothing and retrieveRelevantChunks returns nothing
\* and scores no chunk, whatever topK and minScore are.
C14_FastPath ==
  /\ (rtOut.op = "extractKeywords" /\ OnlyStopOrShort(rtIn.query)) =>
       rtOut.result = <<>>
  /\ (rtOut.op = "retrieveRelevantChunks" /\ OnlyStopOrShort(rtIn.query)) =>
       /\ rtOut.result = <<>>
       /\ rtOut.scored = 0

\* C14 witness: a question of stop words was asked with a negative minimum
\* score over a corpus of three chunks, and nothing came back.
C14_Witness ==
  /\ rtOut.op = "retrieveRelevantChunks"
  /\ rtIn.query = <<"W", "h", "a", "t", " ", "i", "s", " ", "i", "t", "?">>
  /\ rtIn.minScore < 0
  /\ rtIn.topK = 2
  /\ Len(rtIn.chunks) = 3
  /\ rtOut.result = <<>>

\* C15: formatContextForPrompt gives the empty string for no results, its
\* result trims to the empty string exactly when there are no results, and so
\* the hasContext retrieval reports is the hasContext createConversation
\* computes from the context retrieval formatted.
C15_HasContextAgrees ==
  /\ rtOut.op = "formatContextForPrompt" =>
       /\ rtIn.results = <<>> => rtOut.result = <<>>
       /\ (Trim(rtOut.result) = <<>>) <=> (rtIn.results = <<>>)
  /\ rtOut.op = "retrieveContext" =>
       /\ rtOut.result.hasContext = (rtOut.result.chunks # <<>>)
       /\ rtOut.result.hasContext = HasContext(rtOut.result.context)
       /\ \A n \in Companies2 :
            createConversation(n, rtIn.query, rtOut.result.context, <<>>).hasContext
              = rtOut.result.hasContext

\* C15 witness: the only chunk retrieved has an empty title and an empty
\* content, and a conversation built from its context has context.
C15_Witness ==
  /\ rtOut.op = "retrieveContext"
  /\ rtOut.result.chunks = <<EmptyNote>>
  /\ rtOut.result.hasContext
  /\ createConversation("Acme", rtIn.query, rtOut.result.context, <<>>).hasContext

\* C16: every element of extractKeywords(query) is a token of lowercase
\* letters and digits, longer than 2, not a stop word, and occurs once.
C16_TermsWellFormed ==
  rtOut.op = "extractKeywords" =>
    LET terms == rtOut.result
    IN /\ \A i \in 1..Len(terms) :
            /\ Len(terms[i]) > 2
            /\ \A k \in 1..Len(terms[i]) : terms[i][k] \in LowerLetters \cup Digits
            /\ terms[i] \notin STOP_WORDS
       /\ \A i, j \in 1..Len(terms) : terms[i] = terms[j] => i = j

\* the terms that are part of a keyword of the chunk or have one as a part
KeywordHits(chunk, terms) ==
  { t \in terms : \E k \in Range(chunk.keywords) : Includes(k, t) \/ Includes(t, k) }

\* the terms found in a text once it is lowercased
TextHits(text, terms) == { t \in terms : Includes(LowerCase(text), t) }

\* C19: in half points, the score scoreChunk gives is 6 per term hitting a
\* keyword, 4 per term in the title, 2 per term in the content and 1 per
\* matched term, every term counting once per tier; matchedKeywords lists
\* the terms that hit some tier once each; so the result is a function of
\* the chunk and the set of terms.
C19_ScoreFormula ==
  rtOut.op = "scoreChunk" =>
    LET terms == Range(rtIn.queryKeywords)
        byKeyword == KeywordHits(rtIn.chunk, terms)
        byTitle == TextHits(rtIn.chunk.title, terms)
        byContent == TextHits(rtIn.chunk.content, terms)
        matched == byKeyword \cup byTitle \cup byContent
        listed == rtOut.result.matchedKeywords
    IN /\ rtOut.result.score =
            6 * Cardinality(byKeyword) + 4 * Cardinality(byTitle)
              + 2 * Cardinality(byContent) + Cardinality(matched)
       /\ Range(listed) = matched
       /\ \A i, j \in 1..Len(listed) : listed[i] = listed[j] => i = j
       /\ rtOut.result.chunk = rtIn.chunk

\* C19 witness: of two terms one is part of two keywords of the chunk, of
\* its title and of its content, and the score is 6.5.
C19_Witness ==
  /\ rtOut.op = "scoreChunk"
  /\ rtIn.chunk = PricingBilling
  /\ rtIn.queryKeywords = <<<<"s", "u", "p", "p", "o", "r", "t">>, <<"p", "r", "i">>>>
  /\ rtOut.result.score = 13
  /\ rtOut.result.matchedKeywords = <<<<"p", "r", "i">>>>

\* C17: nothing is retried: a request to the handler calls complete() at
\* most once, a call of complete() issues at most one provider request, both
\* only when the handler leaves the parsing of the body, and a failed call
\* is answered with its error without another attempt.
C17_NoRetry ==
  /\ [](fetchCount <= 1 /\ completeCalls <= 1 /\ fetchCount = completeCalls)
  /\ [](completion.kind = "error" =>
          /\ pc = "done"
          /\ response = ErrorResponse(completion.error.statusCode,
                                      completion.error.userMessage)
          /\ response.status >= 400)
  /\ [][(fetchCount' # fetchCount \/ completeCalls' # completeCalls) =>
          \/ pc = "parsing" /\ pc' = "fetching" /\ fetchCount' = 1
               /\ completeCalls' = 1
          \/ pc = "done" /\ pc' = "idle" /\ fetchCount' = 0 /\ completeCalls' = 0]_vars
  /\ [][(completion.kind = "error" /\ pc = "done") =>
          (pc' = "idle" /\ inflight' = NoPayload)]_vars

\* C17 witness: the provider answered 429 to the one request of the one
\* call, and the handler has answered 429.
C17_Witness ==
  /\ pc = "done"
  /\ fetchCount = 1
  /\ completeCalls = 1
  /\ upstream.status = 429
  /\ completion.kind = "error"
  /\ response.status = 429

\* C18: the timer is armed only when complete() starts and is disarmed
\* whenever the call has ended; the abort fires only while the timer is armed
\* and the call awaits the provider, so at most once per call and never after
\* its end; once the timer is disarmed without having fired, the call does
\* not end with the timeout error.
C18_TimerDisarmed ==
  /\ [](pc \in {"idle", "parsing", "done"} => ~timerArmed)
  /\ [](aborted => ~timerArmed)
  /\ [][(timerArmed' /\ ~timerArmed) => (pc = "parsing" /\ pc' = "fetching")]_vars
  /\ [][(aborted' /\ ~aborted) => (timerArmed /\ pc \in Awaiting /\ pc' = pc)]_vars
  /\ [][(~timerArmed /\ ~aborted /\ pc \in Awaiting) =>
          /\ ~timerArmed' /\ ~aborted'
          /\ thrown' # TimeoutError
          /\ response' # ErrorResponse(504, MsgTimeout)]_vars

\* C18 witness: the call returned a reply more than 30 s after it started,
\* with the timer disarmed and no abort.
C18_Witness ==
  /\ pc = "done"
  /\ completion.kind = "reply"
  /\ now > TIMEOUT_MS
  /\ ~timerArmed
  /\ ~aborted

\* the number of messages of a role in the list
CountRole(messages, role) ==
  Cardinality({ i \in 1..Len(messages) : messages[i].role = role })

\* C20: the widget has at most one chat request pending, and isLoading says
\* whether it has one; a sendMessage with blank input or while isLoading
\* changes nothing; an accepted one appends one user message and issues one
\* request; a settling request appends one assistant message and ends the
\* loading; the messages alternate assistant, user from the greeting on.
C20_OneRequestInFlight ==
  /\ [](Len(wPending) <= 1)
  /\ [](wIsLoading <=> Len(wPending) = 1)
  /\ [](/\ CountRole(wMessages, "user") = wIssued
        /\ CountRole(wMessages, "assistant") = 1 + wIssued - Len(wPending)
        /\ \A i \in 1..Len(wMessages) :
             wMessages[i].role = IF i % 2 = 1 THEN "assistant" ELSE "user")
  /\ [][(wIssued' # wIssued \/ Len(wPending') > Len(wPending)) =>
          /\ ~wIsLoading
          /\ Trim(wInput) # <<>>
          /\ wIssued' = wIssued + 1
          /\ Len(wPending') = Len(wPending) + 1
          /\ wMessages' = Append(wMessages, [role |-> "user", content |-> Trim(wInput)])
          /\ wPending'[Len(wPending')].message = Trim(wInput)
          /\ wIsLoading']_vars
  /\ [][Len(wPending') < Len(wPending) =>
          /\ Len(wPending') = Len(wPending) - 1
          /\ Len(wMessages') = Len(wMessages) + 1
          /\ SubSeq(wMessages', 1, Len(wMessages)) = wMessages
          /\ wMessages'[Len(wMessages')].role = "assistant"
          /\ ~wIsLoading'
          /\ wIssued' = wIssued]_vars
  /\ [][wMessages' # wMessages => Len(wPending') # Len(wPending)]_vars

\* C20 witness: the second request failed after the first succeeded, text is
\* waiting in the input field, and the list holds five alternating messages.
C20_Witness ==
  /\ wIssued = 2
  /\ wPending = <<>>
  /\ ~wIsLoading
  /\ Len(wMessages) = 5
  /\ wMessages[3].content # MsgConnecting
  /\ wMessages[5].content = MsgConnecting
  /\ Trim(wInput) # <<>>

====
